---- MODULE Spec2Model ----
(***************************************************************************)
(* Agent Definition Registry and Factory of lightning_agents.              *)
(*                                                                         *)
(* Python values are modelled as follows.                                  *)
(*   str used as an identifier or an opaque field: a TLA+ string           *)
(*   str whose content matters (system_prompt, prompt, context keys and    *)
(*     values): a sequence of one-character strings                        *)
(*   list: a sequence;  dict: an ordered dict, a sequence of <<key,value>> *)
(*     pairs in insertion order, except the parsed AGENT.md data, whose    *)
(*     order is never read: a function from its keys                       *)
(*   exception: the record a call returns with raised = TRUE               *)
(*   AGENT.md content: a sequence of tokens, one per character of the      *)
(*     delimiters, the whitespace and the body, one per YAML key or scalar *)
(***************************************************************************)
EXTENDS Integers, Sequences, FiniteSets, TLC

VARIABLES
    _definitions,   \* AgentRegistry._definitions: dict[str, AgentDefinition]
    _factories,     \* AgentRegistry._factories: dict[str, AgentFactory]
    result,         \* outcome of the last Registry call: return value or exception
    regOrder,       \* history: identifiers in the order of their first register call
    lastReg,        \* history: identifier -> Definition of its latest register call
    overwritten,    \* history: identifiers registered more than once
    fs,             \* the agents base directory (.claude/agents/) on disk
    data,           \* input mapping of the Definition pipeline
    defn,           \* outcome of AgentDefinition.from_md_dict(data)
    md,             \* outcome of defn.to_md_dict()
    defn2,          \* outcome of AgentDefinition.from_md_dict(md)
    pc,             \* position of the Definition pipeline
    clock,          \* the UTC clock get_timestamp reads, in ticks
    threads,        \* thread -> the register call it is executing and where
    io,             \* the write of an AGENT.md that is in progress, if any
    heap,           \* the AgentDefinition objects callers constructed, by address
    held,           \* the AgentInstance objects callers hold, in creation order
    agents_json     \* what db/agents.json holds

vars == <<_definitions, _factories, result, regOrder, lastReg, overwritten,
          fs, data, defn, md, defn2, pc, clock, threads, io, heap, held,
          agents_json>>

regVars == <<_definitions, _factories, result, regOrder, lastReg, overwritten>>
defVars == <<data, defn, md, defn2, pc>>
objVars == <<heap, held>>
envVars == <<clock, threads, io, objVars, agents_json>>

----------------------------------------------------------------------------
(* Bounds and input sets *)

\* cap on the number of identifiers a Registry holds
MaxAgents == 2

AgentIds == {"a", "b", "c"}

NL == "\n"
CR == "\r"

\* "Hi"
PromptHi == <<"H", "i">>
\* "Be\nkind"
PromptBeKind == <<"B", "e", NL, "k", "i", "n", "d">>
\* "a\n---\nb", a prompt with a horizontal rule
PromptRule == <<"a", NL, "-", "-", "-", NL, "b">>
\* "a\r\nb", a prompt with a line that ends in carriage return and line feed
PromptCr == <<"a", CR, NL, "b">>
\* "Hi\n", a prompt that ends in a newline
PromptPadded == <<"H", "i", NL>>

SubagentLists == {<<>>, <<"b", "a">>, <<"a", "b", "c">>}

\* the threads that call register on one Registry
Threads == {"t1", "t2"}

\* the last tick of the clock
MaxClock == 2

\* caps on the AgentDefinition objects constructed and the Instances held
MaxObjects == 2
MaxHeld == 2

----------------------------------------------------------------------------
(* Python built-ins *)

Range(s) == {s[i] : i \in DOMAIN s}

\* dict.keys() as a list
DictKeys(d) == [i \in DOMAIN d |-> d[i][1]]

\* key in d
DictHas(d, k) == \E i \in DOMAIN d : d[i][1] = k

\* d[k] for a key that is present
DictGet(d, k) == d[CHOOSE i \in DOMAIN d : d[i][1] = k][2]

\* a dict whose overwritten key moves to the end
DictSetMoveToEnd(d, k, v) ==
    SelectSeq(d, LAMBDA e : e[1] # k) \o <<(<<k, v>>)>>

\* d[k] = v: a present key keeps its position, a new key goes last
DictSet(d, k, v) ==
    IF DictHas(d, k)
    THEN [i \in DOMAIN d |-> IF d[i][1] = k THEN <<k, v>> ELSE d[i]]
    ELSE Append(d, <<k, v>>)

\* sep.join(parts), parts a list of strings, each a sequence
RECURSIVE Join(_, _)
Join(parts, sep) ==
    IF Len(parts) = 0 THEN <<>>
    ELSE IF Len(parts) = 1 THEN parts[1]
    ELSE parts[1] \o sep \o Join(Tail(parts), sep)

Digits == <<"0", "1", "2", "3", "4", "5", "6", "7", "8", "9">>

\* str(n) for an int n >= 0
RECURSIVE IntToStr(_)
IntToStr(n) ==
    IF n < 10 THEN <<Digits[n + 1]>>
    ELSE IntToStr(n \div 10) \o <<Digits[(n % 10) + 1]>>

\* a context value: a str or an int
StrVal(s) == [t |-> "str", v |-> s]
IntVal(n) == [t |-> "int", v |-> n]

\* f"{v}"
Format(v) == IF v.t = "int" THEN IntToStr(v.v) ELSE v.v

PyNone == [none |-> TRUE]
Some(v) == [none |-> FALSE, v |-> v]

----------------------------------------------------------------------------
(* AgentDefinition *)

MdKeys == {"name", "description", "system_prompt", "model", "tools",
           "skills", "subagents", "created_at", "updated_at"}

\* data.get(k, default)
DataGet(d, k, default) == IF k \in DOMAIN d THEN d[k] ELSE default

Returned(v) == [raised |-> FALSE, exc |-> "", msg |-> <<>>, value |-> v]
Raised(e, m) == [raised |-> TRUE, exc |-> e, msg |-> m, value |-> <<>>]

\* AgentDefinition.from_md_dict: data["name"], data["description"] and
\* data["system_prompt"] raise KeyError(key) in that order; the rest default
from_md_dict(d) ==
    IF "name" \notin DOMAIN d THEN Raised("KeyError", <<"name">>)
    ELSE IF "description" \notin DOMAIN d THEN Raised("KeyError", <<"description">>)
    ELSE IF "system_prompt" \notin DOMAIN d THEN Raised("KeyError", <<"system_prompt">>)
    ELSE Returned([name          |-> d["name"],
                   description   |-> d["description"],
                   system_prompt |-> d["system_prompt"],
                   model         |-> DataGet(d, "model", "sonnet"),
                   tools         |-> DataGet(d, "tools", <<>>),
                   skills        |-> DataGet(d, "skills", <<>>),
                   subagents     |-> DataGet(d, "subagents", <<>>),
                   created_at    |-> DataGet(d, "created_at", ""),
                   updated_at    |-> DataGet(d, "updated_at", "")])

\* the Definitions the Registry is exercised with
RegData ==
    {[name |-> "N", description |-> "D", system_prompt |-> PromptHi,
      model |-> "sonnet", tools |-> <<"mcp__search__web">>, subagents |-> s]
        : s \in SubagentLists}
    \cup {[name |-> "N", description |-> "D", system_prompt |-> PromptBeKind,
           model |-> "haiku"]}

DefSet == {from_md_dict(d).value : d \in RegData}

\* the fields AgentRegistry.save_json of the JSON registry kept
to_md_dict_five_fields(d) ==
    [name |-> d.name, description |-> d.description, model |-> d.model,
     tools |-> d.tools, system_prompt |-> d.system_prompt]

\* AgentDefinition.to_md_dict
to_md_dict(d) ==
    [name          |-> d.name,
     description   |-> d.description,
     model         |-> d.model,
     tools         |-> d.tools,
     skills        |-> d.skills,
     subagents     |-> d.subagents,
     created_at    |-> d.created_at,
     updated_at    |-> d.updated_at,
     system_prompt |-> d.system_prompt]

\* validate_agent_definition: the keys it requires and the models it accepts
RequiredKeys == {"name", "description", "system_prompt", "model"}
SupportedModels == {"haiku", "sonnet"}

\* the mappings the Definition pipeline is exercised with: every subset of
\* the nine keys, three models
FullData ==
    [name: {"N"}, description: {"D"}, system_prompt: {PromptHi},
     model: {"haiku", "sonnet", "opus"}, tools: {<<"mcp__search__web">>},
     skills: {<<"pdf">>}, subagents: {<<"b">>},
     created_at: {"2025-01-01T00:00:00Z"}, updated_at: {"2025-02-01T00:00:00Z"}]

DataSet == {[k \in S |-> f[k]] : f \in FullData, S \in SUBSET MdKeys}

----------------------------------------------------------------------------
(* AgentInstance and build_factory *)

\* the runtime options a caller passes: None or a dict
RuntimeOpts ==
    {PyNone,
     Some(<<>>),
     Some(<<(<<(<<"t", "o", "p", "i", "c">>), StrVal(<<"A", "I">>)>>)>>),
     Some(<<(<<(<<"n">>), IntVal(12)>>)>>),
     Some(<<(<<(<<"t", "o", "p", "i", "c">>), StrVal(<<"A", "I">>)>>),
            (<<(<<"u">>), StrVal(<<"A", "l">>)>>)>>),
     Some(<<(<<(<<"u">>), StrVal(<<"A", "l">>)>>),
            (<<(<<"t", "o", "p", "i", "c">>), StrVal(<<"A", "I">>)>>)>>)}

\* "\n\n## Runtime Context\n"
ContextHeader ==
    <<NL, NL, "#", "#", " ", "R", "u", "n", "t", "i", "m", "e", " ",
      "C", "o", "n", "t", "e", "x", "t", NL>>

\* f"- {k}: {v}"
ContextLine(k, v) == <<"-", " ">> \o k \o <<":", " ">> \o Format(v)

\* a prompt that lists the context from its last key to its first
prompt_reversed(instance) ==
    LET base == instance.definition.system_prompt
        ctx  == instance.runtime_context
    IN  IF Len(ctx) > 0
        THEN base \o ContextHeader
                  \o Join([i \in DOMAIN ctx |->
                             ContextLine(ctx[Len(ctx) + 1 - i][1],
                                         ctx[Len(ctx) + 1 - i][2])],
                          <<NL>>)
        ELSE base

\* AgentInstance.prompt
prompt(instance) ==
    LET base == instance.definition.system_prompt
        ctx  == instance.runtime_context
    IN  IF Len(ctx) > 0
        THEN base \o ContextHeader
                  \o Join([i \in DOMAIN ctx |-> ContextLine(ctx[i][1], ctx[i][2])],
                          <<NL>>)
        ELSE base

\* the closure build_factory returns, applied: the captured definition and
\* `runtime_opts or {}`
factory(definition, runtime_opts) ==
    [definition      |-> definition,
     runtime_context |-> IF runtime_opts.none THEN <<>> ELSE runtime_opts.v]

\* build_factory(definition): the closure is its captured definition
build_factory(definition) == definition

----------------------------------------------------------------------------
(* The agents directory: <base>/<agent_id>/AGENT.md *)

\* the base directory does not exist
NoBaseDir == [exists |-> FALSE, entries |-> <<>>]

\* a plain file, and a directory with or without an AGENT.md
PlainFile == [is_dir |-> FALSE, agent_md |-> PyNone]
EmptyDir == [is_dir |-> TRUE, agent_md |-> PyNone]
AgentDir(content) == [is_dir |-> TRUE, agent_md |-> Some(content)]

\* the base directory as the Registry may find it before any save: missing
\* or empty
InitialFs == {NoBaseDir, [exists |-> TRUE, entries |-> <<>>]}

\* the entry names of the model in lexicographic order
NameOrder == <<"README.md", "a", "b", "c", "drafts">>

\* base.iterdir(): the entry names in any order the file system may yield
iterdir(dir) ==
    {l \in [1..Cardinality(DOMAIN dir.entries) -> DOMAIN dir.entries] :
        Range(l) = DOMAIN dir.entries}

\* a sorted() that keeps the order it is given
sorted_as_enumerated(names) == names

\* sorted(names), names a list
sorted(names) == SelectSeq(NameOrder, LAMBDA n : n \in Range(names))

\* '---'
Delim == <<"-", "-", "-">>

Whitespace == {" ", NL, "\t", CR}

\* str.strip()
RECURSIVE strip(_)
strip(str) ==
    IF Len(str) = 0 THEN str
    ELSE IF str[1] \in Whitespace THEN strip(Tail(str))
    ELSE IF str[Len(str)] \in Whitespace THEN strip(SubSeq(str, 1, Len(str) - 1))
    ELSE str

\* the first index >= from at which '---' occurs in content, 0 if none
RECURSIVE FindDelim(_, _)
FindDelim(content, from) ==
    IF from + 2 > Len(content) THEN 0
    ELSE IF SubSeq(content, from, from + 2) = Delim THEN from
    ELSE FindDelim(content, from + 1)

\* the frontmatter keys in the order to_md_dict inserts them, and those that
\* hold lists
FrontmatterOrder == <<"name", "description", "model", "tools", "skills",
                      "subagents", "created_at", "updated_at">>
ListKeys == {"tools", "skills", "subagents"}

RECURSIVE YamlItems(_)
YamlItems(list) ==
    IF Len(list) = 0 THEN <<>>
    ELSE <<"-", " ", Head(list), NL>> \o YamlItems(Tail(list))

\* the characters of a scalar, for the scalar whose characters matter: one
\* that holds '---'
Spell(v) == IF v = "a---b" THEN <<"a", "-", "-", "-", "b">> ELSE <<v>>

\* one key of the block-style YAML mapping
YamlField(k, v) ==
    IF k \in ListKeys
    THEN IF Len(v) = 0 THEN <<k, ":", " ", "[]", NL>>
         ELSE <<k, ":", NL>> \o YamlItems(v)
    ELSE <<k, ":", " ">> \o (IF v = "" THEN <<"''">> ELSE Spell(v)) \o <<NL>>

\* yaml.dump(data, default_flow_style=False, sort_keys=False)
RECURSIVE YamlDumpKeys(_, _)
YamlDumpKeys(d, keys) ==
    IF Len(keys) = 0 THEN <<>>
    ELSE (IF Head(keys) \in DOMAIN d THEN YamlField(Head(keys), d[Head(keys)])
          ELSE <<>>) \o YamlDumpKeys(d, Tail(keys))

\* an empty mapping is dumped in flow style, '{}'
YamlDump(d) ==
    IF DOMAIN d = {} THEN <<"{}", NL>> ELSE YamlDumpKeys(d, FrontmatterOrder)

\* text.split("\n") without the empty lines
RECURSIVE SplitLines(_, _)
SplitLines(text, line) ==
    IF Len(text) = 0 THEN (IF Len(line) = 0 THEN <<>> ELSE <<line>>)
    ELSE IF Head(text) = NL
         THEN (IF Len(line) = 0 THEN <<>> ELSE <<line>>)
                  \o SplitLines(Tail(text), <<>>)
         ELSE SplitLines(Tail(text), Append(line, Head(text)))

\* the mapping a sequence of YAML lines denotes; cur is the key whose list is
\* being read
RECURSIVE YamlLines(_, _, _)
YamlLines(lines, map, cur) ==
    IF Len(lines) = 0 THEN Returned(Some(map))
    ELSE LET l == Head(lines)
             With(k, v) == [x \in DOMAIN map \cup {k} |-> IF x = k THEN v ELSE map[x]]
         IN  IF Len(l) = 4 /\ l[2] = ":" /\ l[3] = " "
             THEN YamlLines(Tail(lines),
                            With(l[1], IF l[4] = "[]" THEN <<>>
                                       ELSE IF l[4] = "''" THEN ""
                                       ELSE l[4]),
                            "")
             ELSE IF Len(l) = 2 /\ l[2] = ":"
             THEN YamlLines(Tail(lines), With(l[1], <<>>), l[1])
             ELSE IF Len(l) = 3 /\ l[1] = "-" /\ l[2] = " " /\ cur # ""
             THEN YamlLines(Tail(lines), With(cur, Append(map[cur], l[3])), cur)
             ELSE Raised("YAMLError", <<"cannot parse frontmatter">>)

\* yaml.safe_load(text), text given as its non-empty lines: None for an
\* empty document
YamlLoadLines(lines) ==
    IF Len(lines) = 0 THEN Returned(PyNone)
    ELSE IF lines = <<(<<"{}">>)>> THEN Returned(Some(<<>>))
    ELSE YamlLines(lines, <<>>, "")

YamlLoad(text) == YamlLoadLines(SplitLines(text, <<>>))

\* {**frontmatter, 'system_prompt': body}, frontmatter the outcome of
\* yaml.safe_load
MergeBody(frontmatter, body) ==
    IF frontmatter.raised THEN frontmatter
    ELSE IF frontmatter.value.none
    THEN Raised("TypeError", <<"'NoneType' object is not a mapping">>)
    ELSE Returned([k \in DOMAIN frontmatter.value.v \cup {"system_prompt"} |->
                     IF k = "system_prompt" THEN body
                     ELSE frontmatter.value.v[k]])

\* a split at every '---': the body ends where a third delimiter begins
ParsePartsSplitAll(content, close) ==
    IF close = 0
    THEN Raised("ValueError", <<"Invalid AGENT.md format (missing closing ---)">>)
    ELSE MergeBody(YamlLoad(SubSeq(content, 4, close - 1)),
                   strip(SubSeq(content, close + 3,
                                IF FindDelim(content, close + 3) = 0
                                THEN Len(content)
                                ELSE FindDelim(content, close + 3) - 1)))

\* content.split('---', 2) of a content that starts with '---', close the
\* index of the second '---' (0 if none), and what parse_agent_md makes of it
ParseParts(content, close) ==
    IF close = 0
    THEN Raised("ValueError", <<"Invalid AGENT.md format (missing closing ---)">>)
    ELSE MergeBody(YamlLoad(SubSeq(content, 4, close - 1)),
                   strip(SubSeq(content, close + 3, Len(content))))

\* a parse that takes the header between the first two delimiters wherever
\* the first one is
parse_agent_md_any_start(content) ==
    IF FindDelim(content, 1) = 0
    THEN Raised("ValueError", <<"Invalid AGENT.md format (missing closing ---)">>)
    ELSE ParseParts(SubSeq(content, FindDelim(content, 1), Len(content)),
                    FindDelim(SubSeq(content, FindDelim(content, 1), Len(content)),
                              4))

\* what a file opened in text mode yields for what it holds: '\r\n' and
\* '\r' are read as '\n'
RECURSIVE UniversalNewlines(_)
UniversalNewlines(stored) ==
    IF Len(stored) = 0 THEN stored
    ELSE IF Head(stored) # CR
    THEN <<Head(stored)>> \o UniversalNewlines(Tail(stored))
    ELSE IF Len(stored) >= 2 /\ stored[2] = NL
    THEN UniversalNewlines(Tail(stored))
    ELSE <<NL>> \o UniversalNewlines(Tail(stored))

\* parse_agent_md with the content of the file already read
ParseContent(content) ==
    IF ~(Len(content) >= 3 /\ SubSeq(content, 1, 3) = Delim)
    THEN Raised("ValueError", <<"AGENT.md must start with YAML frontmatter">>)
    ELSE ParseParts(content, FindDelim(content, 4))

\* parse_agent_md on what an AGENT.md holds: content = path.read_text()
parse_agent_md(stored) ==
    IF CR \in Range(stored) THEN ParseContent(UniversalNewlines(stored))
    ELSE ParseContent(stored)

\* the content write_agent_md builds
AgentMd(d) ==
    Delim \o <<NL>>
          \o YamlDump([k \in DOMAIN d \ {"system_prompt"} |-> d[k]])
          \o Delim \o <<NL, NL>>
          \o DataGet(d, "system_prompt", <<>>) \o <<NL>>

\* a write_agent_md that pops system_prompt from the mapping it is given
write_agent_md_no_copy(agent_id, d, dir) ==
    IF agent_id \in DOMAIN dir.entries /\ ~dir.entries[agent_id].is_dir
    THEN [outcome |-> Raised("FileExistsError", <<agent_id>>), fs |-> dir,
          data |-> [k \in DOMAIN d \ {"system_prompt"} |-> d[k]]]
    ELSE [outcome |-> Returned(<<agent_id, "AGENT.md">>),
          fs |-> [exists |-> TRUE,
                  entries |-> [n \in DOMAIN dir.entries \cup {agent_id} |->
                                 IF n = agent_id THEN AgentDir(AgentMd(d))
                                 ELSE dir.entries[n]]],
          data |-> [k \in DOMAIN d \ {"system_prompt"} |-> d[k]]]

\* write_agent_md(agent_id, data, base_path) on the directory dir: the
\* outcome, the directory after it and the caller's mapping after it (the
\* function pops from a copy); mkdir fails on a plain file
write_agent_md(agent_id, d, dir) ==
    IF agent_id \in DOMAIN dir.entries /\ ~dir.entries[agent_id].is_dir
    THEN [outcome |-> Raised("FileExistsError", <<agent_id>>), fs |-> dir,
          data |-> d]
    ELSE [outcome |-> Returned(<<agent_id, "AGENT.md">>),
          fs |-> [exists |-> TRUE,
                  entries |-> [n \in DOMAIN dir.entries \cup {agent_id} |->
                                 IF n = agent_id THEN AgentDir(AgentMd(d))
                                 ELSE dir.entries[n]]],
          data |-> d]

----------------------------------------------------------------------------
(* AgentRegistry *)

\* a call of the Registry, its runtime options (None where it takes none)
\* and its outcome
Call(op, agent_id, runtime_opts, outcome) ==
    [op |-> op, agent_id |-> agent_id, runtime_opts |-> runtime_opts,
     raised |-> outcome.raised, exc |-> outcome.exc, msg |-> outcome.msg,
     value |-> outcome.value]

\* a call that enumerated the base directory, with the order iterdir yielded
Listed(call, listing) == call @@ [listing |-> listing]

\* AgentRegistry.list_agents
list_agents == DictKeys(_definitions)

\* a create whose error lists the known identifiers in reverse
create_available_reversed(agent_id, runtime_opts) ==
    IF ~DictHas(_factories, agent_id)
    THEN Raised("KeyError",
                <<"Agent '", agent_id, "' not found. Available: ">>
                    \o Join([i \in DOMAIN _definitions |->
                               <<_definitions[Len(_definitions) + 1 - i][1]>>],
                            <<", ">>))
    ELSE Returned(factory(DictGet(_factories, agent_id), runtime_opts))

\* AgentRegistry.create
create(agent_id, runtime_opts) ==
    IF ~DictHas(_factories, agent_id)
    THEN Raised("KeyError",
                <<"Agent '", agent_id, "' not found. Available: ">>
                    \o Join([i \in DOMAIN _definitions |-> <<_definitions[i][1]>>],
                            <<", ">>))
    ELSE Returned(factory(DictGet(_factories, agent_id), runtime_opts))

\* AgentRegistry.get_definition: a missing key raises KeyError(agent_id)
get_definition(agent_id) ==
    IF DictHas(_definitions, agent_id)
    THEN Returned(DictGet(_definitions, agent_id))
    ELSE Raised("KeyError", <<agent_id>>)

\* AgentDefinition.to_sdk_definition
to_sdk_definition(d) ==
    [name |-> d.name, description |-> d.description, model |-> d.model,
     allowed_tools |-> IF Len(d.tools) > 0 THEN Some(d.tools) ELSE PyNone]

\* the comprehension without the self-reference filter
RECURSIVE SubagentDictWithSelf(_, _)
SubagentDictWithSelf(configured_ids, parent_agent_id) ==
    IF Len(configured_ids) = 0 THEN <<>>
    ELSE LET agent_id == configured_ids[Len(configured_ids)]
             rest == SubagentDictWithSelf(
                         SubSeq(configured_ids, 1, Len(configured_ids) - 1),
                         parent_agent_id)
         IN  IF DictHas(_definitions, agent_id)
             THEN DictSet(rest, agent_id,
                          to_sdk_definition(DictGet(_definitions, agent_id)))
             ELSE rest

\* the dict comprehension of get_configured_subagents
RECURSIVE SubagentDict(_, _)
SubagentDict(configured_ids, parent_agent_id) ==
    IF Len(configured_ids) = 0 THEN <<>>
    ELSE LET agent_id == configured_ids[Len(configured_ids)]
             rest == SubagentDict(SubSeq(configured_ids, 1, Len(configured_ids) - 1),
                                  parent_agent_id)
         IN  IF DictHas(_definitions, agent_id) /\ agent_id # parent_agent_id
             THEN DictSet(rest, agent_id,
                          to_sdk_definition(DictGet(_definitions, agent_id)))
             ELSE rest

\* a get_configured_subagents that reads the parent with self._definitions[...]
get_configured_subagents_strict(parent_agent_id) ==
    IF ~DictHas(_definitions, parent_agent_id)
    THEN Raised("KeyError", <<parent_agent_id>>)
    ELSE LET configured_ids == DictGet(_definitions, parent_agent_id).subagents
         IN  IF Len(configured_ids) = 0 THEN Returned(<<>>)
             ELSE Returned(SubagentDict(configured_ids, parent_agent_id))

\* AgentRegistry.get_configured_subagents
get_configured_subagents(parent_agent_id) ==
    IF ~DictHas(_definitions, parent_agent_id) THEN Returned(<<>>)
    ELSE LET configured_ids == DictGet(_definitions, parent_agent_id).subagents
         IN  IF Len(configured_ids) = 0 THEN Returned(<<>>)
             ELSE Returned(SubagentDict(configured_ids, parent_agent_id))

RegInit ==
    /\ _definitions = <<>>
    /\ _factories = <<>>
    /\ result = Call("__init__", "", PyNone, Returned(<<>>))
    /\ regOrder = <<>>
    /\ lastReg = <<>>
    /\ overwritten = {}

DefIdle ==
    /\ data = <<>>
    /\ defn = Returned(<<>>)
    /\ md = <<>>
    /\ defn2 = Returned(<<>>)
    /\ pc = "idle"

\* no register call is running in any thread
NoCall == [pc |-> "idle", agent_id |-> "", definition |-> PyNone]

\* no write_agent_md is running
NoWrite == [pc |-> "idle", agent_id |-> "", content |-> <<>>, previous |-> PyNone]

\* db/agents.json: absent, a text that is not JSON, or a JSON object with or
\* without the key "agents" (agents None), its agents in file order
NoAgentsJson == [exists |-> FALSE, valid |-> FALSE, agents |-> PyNone]
NotJson == [exists |-> TRUE, valid |-> FALSE, agents |-> PyNone]
JsonObject(agents) == [exists |-> TRUE, valid |-> TRUE, agents |-> agents]

EnvIdle ==
    /\ clock = 0
    /\ threads = [t \in Threads |-> NoCall]
    /\ io = NoWrite
    /\ heap = <<>>
    /\ held = <<>>
    /\ agents_json = NoAgentsJson

Init == RegInit /\ DefIdle /\ EnvIdle /\ fs = NoBaseDir

\* a register that stores the definition and builds no factory
register_definition_only(reg, agent_id, definition) ==
    [definitions |-> DictSet(reg.definitions, agent_id, definition),
     factories   |-> reg.factories]

\* a register that keeps the factory of an identifier already registered
register_keeps_factory(reg, agent_id, definition) ==
    [definitions |-> DictSet(reg.definitions, agent_id, definition),
     factories   |-> IF DictHas(reg.factories, agent_id) THEN reg.factories
                     ELSE DictSet(reg.factories, agent_id,
                                  build_factory(definition))]

\* a register that rebuilds the factory of every identifier from the
\* definition it is given
register_rebuilds_all(reg, agent_id, definition) ==
    [definitions |-> DictSet(reg.definitions, agent_id, definition),
     factories   |-> LET set == DictSet(reg.factories, agent_id,
                                        build_factory(definition))
                     IN  [i \in DOMAIN set |->
                            <<set[i][1], build_factory(definition)>>]]

\* AgentRegistry.register: the two mappings of the registry after the call
register(reg, agent_id, definition) ==
    [definitions |-> DictSet(reg.definitions, agent_id, definition),
     factories   |-> DictSet(reg.factories, agent_id, build_factory(definition))]

\* the two mappings of the Registry object the process holds
self == [definitions |-> _definitions, factories |-> _factories]

Register(agent_id, definition) ==
    /\ DictHas(_definitions, agent_id) \/ Len(_definitions) < MaxAgents
    /\ _definitions' = register(self, agent_id, definition).definitions
    /\ _factories' = register(self, agent_id, definition).factories
    /\ result' = Call("register", agent_id, PyNone, Returned(<<>>))
    /\ regOrder' = IF agent_id \in Range(regOrder) THEN regOrder
                   ELSE Append(regOrder, agent_id)
    /\ lastReg' = [k \in DOMAIN lastReg \cup {agent_id} |->
                     IF k = agent_id THEN definition ELSE lastReg[k]]
    /\ overwritten' = IF agent_id \in Range(regOrder)
                      THEN overwritten \cup {agent_id} ELSE overwritten
    /\ UNCHANGED <<fs, defVars, envVars>>

Create(agent_id, runtime_opts) ==
    /\ result' = Call("create", agent_id, runtime_opts, create(agent_id, runtime_opts))
    /\ UNCHANGED <<_definitions, _factories, regOrder, lastReg, overwritten>>
    /\ UNCHANGED <<fs, defVars, envVars>>

ListAgents ==
    /\ result' = Call("list_agents", "", PyNone, Returned(list_agents))
    /\ UNCHANGED <<_definitions, _factories, regOrder, lastReg, overwritten>>
    /\ UNCHANGED <<fs, defVars, envVars>>

GetDefinition(agent_id) ==
    /\ result' = Call("get_definition", agent_id, PyNone, get_definition(agent_id))
    /\ UNCHANGED <<_definitions, _factories, regOrder, lastReg, overwritten>>
    /\ UNCHANGED <<fs, defVars, envVars>>

GetConfiguredSubagents(parent_agent_id) ==
    /\ result' = Call("get_configured_subagents", parent_agent_id, PyNone,
                      get_configured_subagents(parent_agent_id))
    /\ UNCHANGED <<_definitions, _factories, regOrder, lastReg, overwritten>>
    /\ UNCHANGED <<fs, defVars, envVars>>

Next ==
    \/ \E agent_id \in AgentIds, definition \in DefSet : Register(agent_id, definition)
    \/ \E agent_id \in AgentIds, runtime_opts \in RuntimeOpts : Create(agent_id, runtime_opts)
    \/ ListAgents
    \/ \E agent_id \in AgentIds : GetDefinition(agent_id)
    \/ \E agent_id \in AgentIds : GetConfiguredSubagents(agent_id)

Spec == Init /\ [][Next]_vars

----------------------------------------------------------------------------
(* AgentRegistry and the agents directory *)

\* the loop of from_filesystem over the sorted entry names
RECURSIVE LoadEntries(_, _, _)

\* AgentDefinition.from_md_dict(data) and registry.register(agent_id, definition),
\* then the rest of the loop
LoadDefinition(entries, names, registry, definition) ==
    IF definition.raised THEN definition
    ELSE LoadEntries(entries, Tail(names),
                     register(registry, Head(names), definition.value))

\* an iteration that ends the loop at a file it cannot parse and keeps what
\* is registered so far
LoadParsedKeepsPartial(entries, names, registry, parsed) ==
    IF parsed.raised THEN Returned(registry)
    ELSE LoadDefinition(entries, names, registry, from_md_dict(parsed.value))

\* data = parse_agent_md(agent_file), then the rest of the iteration
LoadParsed(entries, names, registry, parsed) ==
    IF parsed.raised THEN parsed
    ELSE LoadDefinition(entries, names, registry, from_md_dict(parsed.value))

LoadEntries(entries, names, registry) ==
    IF Len(names) = 0 THEN Returned(registry)
    ELSE IF ~entries[Head(names)].is_dir \/ entries[Head(names)].agent_md.none
    THEN LoadEntries(entries, Tail(names), registry)
    ELSE LoadParsed(entries, names, registry,
                    parse_agent_md(entries[Head(names)].agent_md.v))

\* a from_filesystem that iterates over a base directory that does not exist
from_filesystem_no_exists_check(dir, listing) ==
    IF ~dir.exists THEN Raised("FileNotFoundError", <<"agents">>)
    ELSE LoadEntries(dir.entries, sorted(listing),
                     [definitions |-> <<>>, factories |-> <<>>])

\* AgentRegistry.from_filesystem(base_path) on the directory dir, listing the
\* order in which base.iterdir() yields its entries
from_filesystem(dir, listing) ==
    IF ~dir.exists THEN Returned([definitions |-> <<>>, factories |-> <<>>])
    ELSE LoadEntries(dir.entries, sorted(listing),
                     [definitions |-> <<>>, factories |-> <<>>])

\* registry = AgentRegistry.from_filesystem(): the process holds the new
\* Registry once the call has returned, and keeps the old one if it raised
FromFilesystem ==
    \E listing \in iterdir(fs) : \E loaded \in {from_filesystem(fs, listing)} :
        /\ IF loaded.raised
           THEN /\ result' = Listed(Call("from_filesystem", "", PyNone, loaded),
                                    listing)
                /\ UNCHANGED <<_definitions, _factories, regOrder, lastReg,
                               overwritten>>
           ELSE /\ result' = Listed(Call("from_filesystem", "", PyNone,
                                         Returned(<<>>)), listing)
                /\ _definitions' = loaded.value.definitions
                /\ _factories' = loaded.value.factories
                /\ regOrder' = DictKeys(loaded.value.definitions)
                /\ lastReg' = [k \in Range(DictKeys(loaded.value.definitions)) |->
                                 DictGet(loaded.value.definitions, k)]
                /\ overwritten' = {}
        /\ UNCHANGED <<fs, defVars, envVars>>

\* AgentRegistry.save_agent
SaveAgent(agent_id) ==
    /\ IF ~DictHas(_definitions, agent_id)
       THEN /\ result' = Call("save_agent", agent_id, PyNone,
                              Raised("KeyError",
                                     <<"Agent '", agent_id, "' not found">>))
            /\ fs' = fs
       ELSE \E written \in {write_agent_md(
                                  agent_id,
                                  to_md_dict(DictGet(_definitions, agent_id)), fs)} :
                /\ result' = Call("save_agent", agent_id, PyNone, written.outcome)
                /\ fs' = written.fs
    /\ UNCHANGED <<_definitions, _factories, regOrder, lastReg, overwritten>>
    /\ UNCHANGED <<defVars, envVars>>

\* a delete_agent_file that also drops the identifier from both mappings
DeleteAgentFileUnregisters(agent_id) ==
    /\ agent_id \in DOMAIN fs.entries
    /\ fs.entries[agent_id].is_dir
    /\ result' = Call("delete_agent_file", agent_id, PyNone, Returned(<<>>))
    /\ fs' = [fs EXCEPT !.entries =
                 [n \in DOMAIN fs.entries \ {agent_id} |-> fs.entries[n]]]
    /\ _definitions' = SelectSeq(_definitions, LAMBDA e : e[1] # agent_id)
    /\ _factories' = SelectSeq(_factories, LAMBDA e : e[1] # agent_id)
    /\ UNCHANGED <<regOrder, lastReg, overwritten>>
    /\ UNCHANGED <<defVars, envVars>>

\* AgentRegistry.delete_agent_file: shutil.rmtree of the agent's directory if
\* the path exists; rmtree fails on a plain file
DeleteAgentFile(agent_id) ==
    /\ IF agent_id \notin DOMAIN fs.entries
       THEN /\ result' = Call("delete_agent_file", agent_id, PyNone, Returned(<<>>))
            /\ fs' = fs
       ELSE IF ~fs.entries[agent_id].is_dir
       THEN /\ result' = Call("delete_agent_file", agent_id, PyNone,
                              Raised("NotADirectoryError", <<agent_id>>))
            /\ fs' = fs
       ELSE /\ result' = Call("delete_agent_file", agent_id, PyNone, Returned(<<>>))
            /\ fs' = [fs EXCEPT !.entries =
                         [n \in DOMAIN fs.entries \ {agent_id} |-> fs.entries[n]]]
    /\ UNCHANGED <<_definitions, _factories, regOrder, lastReg, overwritten>>
    /\ UNCHANGED <<defVars, envVars>>

\* the identifiers, Definitions and runtime options the Registry is exercised
\* with next to the agents directory
StoreIds == {"a", "b"}
StoreDefSet == {d \in DefSet : d.subagents \in {<<>>, <<"b", "a">>}}
StoreOpts == {PyNone, Some(<<(<<(<<"n">>), IntVal(12)>>)>>)}

StoreInit == RegInit /\ DefIdle /\ EnvIdle /\ fs \in InitialFs

StoreNext ==
    \/ \E agent_id \in StoreIds, definition \in StoreDefSet :
           Register(agent_id, definition)
    \/ \E agent_id \in StoreIds \cup {"c"}, runtime_opts \in StoreOpts :
           Create(agent_id, runtime_opts)
    \/ ListAgents
    \/ \E agent_id \in StoreIds \cup {"c"} : GetDefinition(agent_id)
    \/ \E agent_id \in StoreIds : GetConfiguredSubagents(agent_id)
    \/ \E agent_id \in StoreIds \cup {"c"} : SaveAgent(agent_id)
    \/ \E agent_id \in StoreIds \cup {"c"} : DeleteAgentFile(agent_id)
    \/ FromFilesystem

StoreSpec == StoreInit /\ [][StoreNext]_vars

----------------------------------------------------------------------------
(* Bulk load and the store's read operations on a directory that also holds
   AGENT.md files written by hand *)

\* whether <base>/<agent_id>/AGENT.md exists
HasAgentMd(dir, agent_id) ==
    /\ agent_id \in DOMAIN dir.entries
    /\ dir.entries[agent_id].is_dir
    /\ ~dir.entries[agent_id].agent_md.none

\* path.read_text() of <base>/<agent_id>/AGENT.md
read_text(dir, agent_id) ==
    IF HasAgentMd(dir, agent_id)
    THEN Returned(dir.entries[agent_id].agent_md.v)
    ELSE IF agent_id \in DOMAIN dir.entries /\ ~dir.entries[agent_id].is_dir
    THEN Raised("NotADirectoryError", <<agent_id>>)
    ELSE Raised("FileNotFoundError", <<agent_id>>)

\* parse_agent_md(path) for the path of agent_id's AGENT.md
ParseAgentMd(agent_id) ==
    /\ \E content \in {read_text(fs, agent_id)} :
           result' = Call("parse_agent_md", agent_id, PyNone,
                          IF content.raised THEN content
                          ELSE parse_agent_md(content.value))
    /\ UNCHANGED <<_definitions, _factories, regOrder, lastReg, overwritten>>
    /\ UNCHANGED <<fs, defVars, envVars>>

\* a listing that keeps every directory, with or without an AGENT.md
_list_agent_ids_all_dirs(dir, listing) ==
    IF ~dir.exists THEN <<>>
    ELSE sorted(SelectSeq(listing, LAMBDA n : dir.entries[n].is_dir))

\* _list_agent_ids() on the directory dir, listing the order of base.iterdir()
_list_agent_ids(dir, listing) ==
    IF ~dir.exists THEN <<>>
    ELSE sorted(SelectSeq(listing, LAMBDA n : HasAgentMd(dir, n)))

ListAgentIds ==
    /\ \E listing \in iterdir(fs) :
           result' = Listed(Call("_list_agent_ids", "", PyNone,
                                 Returned(_list_agent_ids(fs, listing))), listing)
    /\ UNCHANGED <<_definitions, _factories, regOrder, lastReg, overwritten>>
    /\ UNCHANGED <<fs, defVars, envVars>>

\* AGENT.md files as an author may leave them: without one of the keys, with
\* a model of another tier, with an empty header, without the opening
\* delimiter and without the closing one
HandWritten ==
    [name |-> "N", description |-> "D", model |-> "haiku",
     system_prompt |-> PromptHi]

ContentValid == AgentMd(HandWritten)
ContentOpus == AgentMd([HandWritten EXCEPT !.model = "opus"])
ContentNoModel ==
    AgentMd([k \in DOMAIN HandWritten \ {"model"} |-> HandWritten[k]])
ContentNoDescription ==
    AgentMd([k \in DOMAIN HandWritten \ {"description"} |-> HandWritten[k]])
ContentEmptyHeader ==
    Delim \o <<NL>> \o Delim \o <<NL, NL>> \o PromptHi \o <<NL>>
ContentNoOpening == PromptHi \o <<NL>> \o ContentValid
ContentNoClosing ==
    Delim \o <<"-", NL, "name", ":", " ", "N", NL, NL>> \o PromptHi \o <<NL>>

LoadContents ==
    {ContentValid, ContentOpus, ContentNoDescription, ContentNoOpening,
     ContentNoClosing}

LoadIds == {"a", "b"}

\* what the base directory may hold for an identifier: nothing, an empty
\* directory or a directory with an AGENT.md
LoadEntry == {PyNone, EmptyDir} \cup {AgentDir(c) : c \in LoadContents}

\* the other entries of the base directory
OtherEntries == {<<>>, [n \in {"README.md"} |-> PlainFile]}

LoadFs ==
    {NoBaseDir} \cup
    {[exists |-> TRUE,
      entries |-> [n \in {id \in LoadIds : e[id] # PyNone} \cup DOMAIN o |->
                     IF n \in LoadIds THEN e[n] ELSE o[n]]]
        : e \in [LoadIds -> LoadEntry], o \in OtherEntries}

\* an author writes <base>/<agent_id>/AGENT.md by hand, in a base directory
\* that exists
WriteByHand(agent_id, content) ==
    /\ fs.exists
    /\ IF agent_id \in DOMAIN fs.entries THEN fs.entries[agent_id].is_dir
       ELSE TRUE
    /\ fs' = [fs EXCEPT !.entries =
                 [n \in DOMAIN fs.entries \cup {agent_id} |->
                    IF n = agent_id THEN AgentDir(content) ELSE fs.entries[n]]]
    /\ result' = Call("write_text", agent_id, PyNone, Returned(<<>>))
    /\ UNCHANGED <<_definitions, _factories, regOrder, lastReg, overwritten>>
    /\ UNCHANGED <<defVars, envVars>>

LoadInit == RegInit /\ DefIdle /\ EnvIdle /\ fs \in LoadFs

LoadNext ==
    \/ FromFilesystem
    \/ ListAgentIds
    \/ \E agent_id \in LoadIds \cup {"README.md"} : ParseAgentMd(agent_id)
    \/ \E agent_id \in LoadIds : DeleteAgentFile(agent_id)
    \/ \E agent_id \in LoadIds, content \in LoadContents :
           WriteByHand(agent_id, content)

LoadSpec == LoadInit /\ [][LoadNext]_vars

----------------------------------------------------------------------------
(* write_agent_md called with a mapping the caller keeps *)

\* a call of write_agent_md, and whether the call before it was the same
\* write and returned
Again(call, again) == call @@ [again |-> again]

\* write_agent_md(agent_id, data, base): data is the caller's mapping
WriteAgentMd(agent_id) ==
    /\ \E written \in {write_agent_md(agent_id, data, fs)} :
           /\ fs' = written.fs
           /\ data' = written.data
           /\ result' = Again(Call("write_agent_md", agent_id, PyNone,
                                   written.outcome),
                              /\ result.op = "write_agent_md"
                              /\ result.agent_id = agent_id
                              /\ ~result.raised)
    /\ UNCHANGED <<_definitions, _factories, regOrder, lastReg, overwritten>>
    /\ UNCHANGED <<defn, md, defn2, pc, envVars>>

\* the mappings write_agent_md is exercised with: every subset of the nine
\* keys
WriteData == {d \in DataSet : DataGet(d, "model", "sonnet") = "sonnet"}

\* the base directory before the writes: missing, empty, holding an agent
\* written by hand, holding a plain file under an identifier
WriteFs ==
    {NoBaseDir,
     [exists |-> TRUE, entries |-> <<>>],
     [exists |-> TRUE, entries |-> [n \in {"a"} |-> AgentDir(ContentOpus)]],
     [exists |-> TRUE, entries |-> [n \in {"b"} |-> PlainFile]]}

WriteInit ==
    /\ RegInit
    /\ EnvIdle
    /\ fs \in WriteFs
    /\ data \in WriteData
    /\ defn = Returned(<<>>)
    /\ md = <<>>
    /\ defn2 = Returned(<<>>)
    /\ pc = "idle"

WriteNext == \E agent_id \in {"a", "b"} : WriteAgentMd(agent_id)

WriteSpec == WriteInit /\ [][WriteNext]_vars

----------------------------------------------------------------------------
(* The agent tools db_create_agent, db_update_agent and db_delete_agent *)

\* datetime.now(timezone.utc).isoformat().replace("+00:00", "Z") at each tick
\* of the clock
Timestamps ==
    <<"2025-01-01T00:00:00.000000Z", "2025-01-01T00:00:00.000001Z",
      "2025-01-01T00:00:00.000002Z", "2025-01-01T00:00:00.000003Z",
      "2025-01-01T00:00:00.000004Z">>

\* get_timestamp() at tick t
get_timestamp(t) == Timestamps[t + 1]

\* a Python value that is not a list, in a place where a list is expected:
\* the sequence of its type and its content
PyStr(chars) == <<"<str>">> \o chars
PyInt(digit) == <<"<int>", digit>>
PyDict == <<"<dict>">>
TypeMarks == {"<str>", "<int>", "<dict>"}

\* isinstance(v, str) and isinstance(v, list)
isinstance_str(v) == Len(v) > 0 /\ v[1] = "<str>"
isinstance_list(v) == ~(Len(v) > 0 /\ v[1] \in TypeMarks)

\* '"'
Quote == "\""

\* the text without the blanks it starts with
RECURSIVE SkipBlanks(_)
SkipBlanks(text) ==
    IF Len(text) > 0 /\ Head(text) \in Whitespace THEN SkipBlanks(Tail(text))
    ELSE text

\* the elements of a JSON array of strings, text what follows '[' or ','
\* up to ']'
RECURSIVE JsonItems(_, _)
JsonItems(text, acc) ==
    LET t == SkipBlanks(text)
    IN  IF Len(t) >= 3 /\ t[1] = Quote /\ t[2] # Quote /\ t[3] = Quote
        THEN LET rest == SkipBlanks(SubSeq(t, 4, Len(t)))
             IN  IF Len(rest) = 0 THEN Returned(Append(acc, t[2]))
                 ELSE IF rest[1] = ","
                 THEN JsonItems(Tail(rest), Append(acc, t[2]))
                 ELSE Raised("JSONDecodeError", <<"Expecting ',' delimiter">>)
        ELSE Raised("JSONDecodeError", <<"Expecting value">>)

\* json.loads(text) for a text that holds an array of strings, a string, a
\* digit, an empty object, or no JSON document
json_loads(text) ==
    LET t == strip(text)
    IN  IF Len(t) = 0 THEN Raised("JSONDecodeError", <<"Expecting value">>)
        ELSE IF t[1] = "["
        THEN IF t[Len(t)] # "]" \/ Len(t) = 1
             THEN Raised("JSONDecodeError", <<"Expecting ',' delimiter">>)
             ELSE IF Len(SkipBlanks(SubSeq(t, 2, Len(t) - 1))) = 0
             THEN Returned(<<>>)
             ELSE JsonItems(SubSeq(t, 2, Len(t) - 1), <<>>)
        ELSE IF Len(t) = 3 /\ t[1] = Quote /\ t[2] # Quote /\ t[3] = Quote
        THEN Returned(PyStr(<<t[2]>>))
        ELSE IF t = <<"{", "}">> THEN Returned(PyDict)
        ELSE IF Len(t) = 1 /\ t[1] \in Range(Digits) THEN Returned(PyInt(t[1]))
        ELSE Raised("JSONDecodeError", <<"Expecting value">>)

\* a tools or skills argument kept as it arrives
ParseListArgRaw(v) == v

\* the tools or skills argument after "if isinstance(tools, str): try:
\* tools = json.loads(tools) except JSONDecodeError: tools = []"
ParseListArg(v) ==
    IF isinstance_str(v)
    THEN (IF json_loads(Tail(v)).raised THEN <<>> ELSE json_loads(Tail(v)).value)
    ELSE v

\* validate_agent_definition: (is_valid, error)
validate_agent_definition(agent_data) ==
    IF RequiredKeys \ DOMAIN agent_data # {}
    THEN [valid |-> FALSE, error |-> "Missing required fields",
          missing |-> RequiredKeys \ DOMAIN agent_data]
    ELSE IF agent_data["model"] \notin SupportedModels
    THEN [valid |-> FALSE, error |-> "Invalid model", missing |-> {}]
    ELSE IF "tools" \in DOMAIN agent_data /\ ~isinstance_list(agent_data["tools"])
    THEN [valid |-> FALSE, error |-> "Tools must be a list", missing |-> {}]
    ELSE [valid |-> TRUE, error |-> "", missing |-> {}]

\* _load_agent(agent_id): None without an AGENT.md, else what parse_agent_md
\* returns or raises
_load_agent(dir, agent_id) ==
    IF ~HasAgentMd(dir, agent_id) THEN Returned(PyNone)
    ELSE LET parsed == parse_agent_md(dir.entries[agent_id].agent_md.v)
         IN  IF parsed.raised THEN parsed ELSE Returned(Some(parsed.value))

\* the result a tool returns: {"content": [{"type": "text", "text": text}]},
\* with "isError": True for an error
ToolResult(text) == [isError |-> FALSE, text |-> text]
ToolError(text) == [isError |-> TRUE, text |-> text]

\* "Invalid agent definition: {error}"
InvalidDefinition(v) ==
    ToolError(<<"Invalid agent definition: ", v.error>>)

\* d[k] = v on a mapping
SetKey(d, k, v) == [x \in DOMAIN d \cup {k} |-> IF x = k THEN v ELSE d[x]]

\* the agent_data db_create_agent builds from its arguments
CreateData(args) ==
    [name          |-> args["name"],
     description   |-> args["description"],
     system_prompt |-> args["system_prompt"],
     model         |-> args["model"],
     tools         |-> ParseListArg(DataGet(args, "tools", <<>>)),
     skills        |-> ParseListArg(DataGet(args, "skills", <<>>)),
     subagents     |-> DataGet(args, "subagents", <<>>)]

\* "Created agent '{agent_id}' successfully!..." with name, model and the
\* number of tools
Created(agent_id, agent_data) ==
    ToolResult(<<"Created agent '", agent_id, "' successfully!", NL, NL,
                 "Name: ", agent_data["name"], NL,
                 "Model: ", agent_data["model"], NL, "Tools: ">>
               \o IntToStr(Len(agent_data["tools"])))

\* the end of db_create_agent: the timestamps and the write
CreateWrite(agent_id, agent_data, dir, t1, t2) ==
    LET written == write_agent_md(
                       agent_id,
                       SetKey(SetKey(agent_data, "created_at", get_timestamp(t1)),
                              "updated_at", get_timestamp(t2)),
                       dir)
    IN  IF written.outcome.raised THEN written
        ELSE [written EXCEPT !.outcome = Returned(Created(agent_id, agent_data))]

\* a db_create_agent that writes without looking for an existing agent
db_create_agent_no_exists_check(args, dir, t1, t2) ==
    IF ~validate_agent_definition(CreateData(args)).valid
    THEN [outcome |-> Returned(InvalidDefinition(
                          validate_agent_definition(CreateData(args)))),
          fs |-> dir, data |-> CreateData(args)]
    ELSE CreateWrite(args["agent_id"], CreateData(args), dir, t1, t2)

\* the first of args["name"], args["description"], args["system_prompt"] and
\* args["model"] that raises KeyError, "" if none does
MissingArg(args) ==
    IF "name" \notin DOMAIN args THEN "name"
    ELSE IF "description" \notin DOMAIN args THEN "description"
    ELSE IF "system_prompt" \notin DOMAIN args THEN "system_prompt"
    ELSE IF "model" \notin DOMAIN args THEN "model"
    ELSE ""

\* a db_create_agent that looks for an existing agent before it validates
db_create_agent_exists_first(args, dir, t1, t2) ==
    IF MissingArg(args) # ""
    THEN [outcome |-> Raised("KeyError", <<MissingArg(args)>>), fs |-> dir,
          data |-> <<>>]
    ELSE IF _load_agent(dir, args["agent_id"]).raised
    THEN [outcome |-> _load_agent(dir, args["agent_id"]), fs |-> dir,
          data |-> CreateData(args)]
    ELSE IF ~_load_agent(dir, args["agent_id"]).value.none
    THEN [outcome |-> Returned(ToolError(
                          <<"Agent '", args["agent_id"],
                            "' already exists. Use db_update_agent to modify.">>)),
          fs |-> dir, data |-> CreateData(args)]
    ELSE IF ~validate_agent_definition(CreateData(args)).valid
    THEN [outcome |-> Returned(InvalidDefinition(
                          validate_agent_definition(CreateData(args)))),
          fs |-> dir, data |-> CreateData(args)]
    ELSE CreateWrite(args["agent_id"], CreateData(args), dir, t1, t2)

\* db_create_agent(args) on the directory dir, the clock at t1 and then at t2
\* when it is read: the outcome and the directory after it
db_create_agent(args, dir, t1, t2) ==
    IF MissingArg(args) # ""
    THEN [outcome |-> Raised("KeyError", <<MissingArg(args)>>), fs |-> dir,
          data |-> <<>>]
    ELSE IF ~validate_agent_definition(CreateData(args)).valid
    THEN [outcome |-> Returned(InvalidDefinition(
                          validate_agent_definition(CreateData(args)))),
          fs |-> dir, data |-> CreateData(args)]
    ELSE IF _load_agent(dir, args["agent_id"]).raised
    THEN [outcome |-> _load_agent(dir, args["agent_id"]), fs |-> dir,
          data |-> CreateData(args)]
    ELSE IF ~_load_agent(dir, args["agent_id"]).value.none
    THEN [outcome |-> Returned(ToolError(
                          <<"Agent '", args["agent_id"],
                            "' already exists. Use db_update_agent to modify.">>)),
          fs |-> dir, data |-> CreateData(args)]
    ELSE CreateWrite(args["agent_id"], CreateData(args), dir, t1, t2)

\* the fields db_update_agent copies from its arguments
UpdateKeys ==
    {"name", "description", "system_prompt", "model", "tools", "skills"}

\* existing after "update only provided fields"
Updated(existing, args) ==
    [k \in DOMAIN existing \cup (UpdateKeys \cap DOMAIN args) |->
        IF k \in {"tools", "skills"} \cap DOMAIN args THEN ParseListArg(args[k])
        ELSE IF k \in UpdateKeys \cap DOMAIN args THEN args[k]
        ELSE existing[k]]

\* an update that validates and writes without touching updated_at
UpdateWriteKeepsTimestamp(agent_id, existing, dir, t) ==
    IF ~validate_agent_definition(existing).valid
    THEN [outcome |-> Returned(InvalidDefinition(
                          validate_agent_definition(existing))),
          fs |-> dir, data |-> existing]
    ELSE LET written == write_agent_md(agent_id, existing, dir)
         IN  IF written.outcome.raised THEN written
             ELSE [written EXCEPT !.outcome = Returned(ToolResult(
                       <<"Updated agent '", agent_id, "' successfully!">>))]

\* the end of db_update_agent: validation, the timestamp and the write
UpdateWrite(agent_id, existing, dir, t) ==
    IF ~validate_agent_definition(existing).valid
    THEN [outcome |-> Returned(InvalidDefinition(
                          validate_agent_definition(existing))),
          fs |-> dir, data |-> existing]
    ELSE LET written == write_agent_md(
                            agent_id,
                            SetKey(existing, "updated_at", get_timestamp(t)), dir)
         IN  IF written.outcome.raised THEN written
             ELSE [written EXCEPT !.outcome = Returned(ToolResult(
                       <<"Updated agent '", agent_id, "' successfully!">>))]

\* db_update_agent(args) on the directory dir, the clock at t when it is read
db_update_agent(args, dir, t) ==
    LET existing == _load_agent(dir, args["agent_id"])
    IN  IF existing.raised
        THEN [outcome |-> existing, fs |-> dir, data |-> <<>>]
        ELSE IF existing.value.none
        THEN [outcome |-> Returned(ToolError(
                              <<"Agent '", args["agent_id"],
                                "' not found. Use db_create_agent to create.">>)),
              fs |-> dir, data |-> <<>>]
        ELSE UpdateWrite(args["agent_id"], Updated(existing.value.v, args), dir,
                         t)

\* db_delete_agent(args) on the directory dir: the directory is removed
\* before the result, which reads data['name'], is built
db_delete_agent(args, dir) ==
    LET agent_id == args["agent_id"]
        loaded == _load_agent(dir, agent_id)
        removed == [dir EXCEPT !.entries =
                       [n \in DOMAIN dir.entries \ {agent_id} |-> dir.entries[n]]]
    IN  IF loaded.raised THEN [outcome |-> loaded, fs |-> dir]
        ELSE IF loaded.value.none
        THEN [outcome |-> Returned(ToolError(
                              <<"Agent '", agent_id, "' not found.">>)),
              fs |-> dir]
        ELSE IF "name" \notin DOMAIN loaded.value.v
        THEN [outcome |-> Raised("KeyError", <<"name">>), fs |-> removed]
        ELSE [outcome |-> Returned(ToolResult(
                              <<"Deleted agent '", agent_id, "' (",
                                loaded.value.v["name"], ") successfully!">>)),
              fs |-> removed]

\* the clock is read twice, at t1 = clock and at t2
DbCreateAgent(args) ==
    /\ \E t2 \in clock..MaxClock :
           \E done \in {db_create_agent(args, fs, clock, t2)} :
               /\ fs' = done.fs
               /\ clock' = IF done.fs = fs THEN clock ELSE t2
               /\ result' = Call("db_create_agent", args["agent_id"],
                                 Some(args), done.outcome)
    /\ UNCHANGED <<_definitions, _factories, regOrder, lastReg, overwritten>>
    /\ UNCHANGED <<defVars, threads, io, objVars, agents_json>>

DbUpdateAgent(args) ==
    /\ \E done \in {db_update_agent(args, fs, clock)} :
           /\ fs' = done.fs
           /\ result' = Call("db_update_agent", args["agent_id"], Some(args),
                             done.outcome)
    /\ UNCHANGED <<_definitions, _factories, regOrder, lastReg, overwritten>>
    /\ UNCHANGED <<defVars, envVars>>

DbDeleteAgent(args) ==
    /\ \E done \in {db_delete_agent(args, fs)} :
           /\ fs' = done.fs
           /\ result' = Call("db_delete_agent", args["agent_id"], Some(args),
                             done.outcome)
    /\ UNCHANGED <<_definitions, _factories, regOrder, lastReg, overwritten>>
    /\ UNCHANGED <<defVars, envVars>>

\* time passes
Tick ==
    /\ clock < MaxClock
    /\ clock' = clock + 1
    /\ UNCHANGED <<fs, regVars, defVars, threads, io, objVars, agents_json>>

\* the requests the tools are exercised with
CreateRequests ==
    {[agent_id |-> "a", name |-> "N", description |-> "D",
      system_prompt |-> PromptHi, model |-> "sonnet",
      tools |-> <<"mcp__search__web">>],
     [agent_id |-> "a", name |-> "N2", description |-> "D",
      system_prompt |-> PromptBeKind, model |-> "haiku", tools |-> <<>>,
      skills |-> <<"pdf">>, subagents |-> <<"b">>],
     [agent_id |-> "a", name |-> "N", description |-> "D",
      system_prompt |-> PromptHi, model |-> "opus", tools |-> <<>>]}

UpdateRequests ==
    {[agent_id |-> "a"],
     [agent_id |-> "a", name |-> "N3", description |-> "D3"],
     [agent_id |-> "a", system_prompt |-> PromptBeKind, model |-> "haiku",
      tools |-> <<>>],
     [agent_id |-> "a", skills |-> <<"pdf">>, subagents |-> <<"c">>],
     [agent_id |-> "a", model |-> "opus"]}

\* the base directory before the requests
DbFs ==
    {NoBaseDir, [exists |-> TRUE, entries |-> <<>>]}
    \cup {[exists |-> TRUE, entries |-> [n \in {"a"} |-> e]]
             : e \in {EmptyDir, PlainFile, AgentDir(ContentNoClosing),
                      AgentDir(ContentNoDescription),
                      AgentDir(ContentEmptyHeader)}}
    \cup {[exists |-> TRUE,
           entries |-> [n \in {"a", "b"} |->
                          IF n = "a" THEN AgentDir(ContentValid)
                          ELSE AgentDir(ContentOpus)]]}

DbInit == RegInit /\ DefIdle /\ EnvIdle /\ fs \in DbFs

DbNext ==
    \/ \E args \in CreateRequests : DbCreateAgent(args)
    \/ \E args \in UpdateRequests : DbUpdateAgent(args)
    \/ DbDeleteAgent([agent_id |-> "a"])
    \/ Tick

DbSpec == DbInit /\ [][DbNext]_vars

----------------------------------------------------------------------------
(* The two delete operations on a directory that holds agents, entries that
   are no agent and AGENT.md files written by hand *)

DeleteIds == {"a", "b"}

DeleteInit == RegInit /\ DefIdle /\ EnvIdle /\ fs \in DbFs

DeleteNext ==
    \/ \E agent_id \in DeleteIds : DbDeleteAgent([agent_id |-> agent_id])
    \/ \E agent_id \in DeleteIds : DeleteAgentFile(agent_id)
    \/ \E agent_id \in DeleteIds, content \in {ContentValid, ContentNoClosing} :
           WriteByHand(agent_id, content)
    \/ ListAgentIds
    \/ FromFilesystem

DeleteSpec == DeleteInit /\ [][DeleteNext]_vars

----------------------------------------------------------------------------
(* The agent tools called with requests that validation rejects *)

ValidCreateRequests ==
    {[agent_id |-> "a", name |-> "N", description |-> "D",
      system_prompt |-> PromptHi, model |-> m, tools |-> t]
        : m \in {"sonnet", "opus"}, t \in {<<"Read">>, PyDict}}
    \cup {[agent_id |-> "a", name |-> "N", system_prompt |-> PromptHi,
           model |-> "haiku", tools |-> <<>>]}

ValidUpdateRequests ==
    {[agent_id |-> "a"],
     [agent_id |-> "a", description |-> "D3"],
     [agent_id |-> "a", model |-> "opus"],
     [agent_id |-> "a", tools |-> PyStr(<<Quote, "Read", Quote>>)]}

ValidNext ==
    \/ \E args \in ValidCreateRequests : DbCreateAgent(args)
    \/ \E args \in ValidUpdateRequests : DbUpdateAgent(args)
    \/ DbDeleteAgent([agent_id |-> "a"])
    \/ Tick

ValidSpec == DbInit /\ [][ValidNext]_vars

----------------------------------------------------------------------------
(* The agent tools called with tools and skills as the SDK sends them: a list
   or a JSON-encoded string *)

\* json.dumps(list) for a list of strings
RECURSIVE JsonElements(_)
JsonElements(list) ==
    IF Len(list) = 0 THEN <<>>
    ELSE <<Quote, Head(list), Quote>>
             \o (IF Len(list) = 1 THEN <<>> ELSE <<",", " ">>)
             \o JsonElements(Tail(list))

JsonText(list) == <<"[">> \o JsonElements(list) \o <<"]">>

\* the lists of tool names a request encodes
ToolLists == {<<>>, <<"Read">>, <<"Read", "Grep">>}

\* texts that are no JSON document: free text, an array without its closing
\* bracket, an array with a trailing comma
UndecodableTexts ==
    {<<"R", "e", "a", "d">>,
     <<"[", Quote, "Read", Quote>>,
     <<"[", Quote, "Read", Quote, ",", "]">>}

\* JSON documents that are not an array: a string, an object, a number
NonListTexts == {<<Quote, "Read", Quote>>, <<"{", "}">>, <<"5">>}

\* the tools arguments: a list, the JSON text of a list with or without
\* blanks around it, a text that does not decode, a text that decodes to
\* something else
ToolsArgs ==
    {<<"Read">>}
    \cup {PyStr(JsonText(l)) : l \in ToolLists}
    \cup {PyStr(<<" ">> \o JsonText(<<"Read", "Grep">>) \o <<NL>>)}
    \cup {PyStr(t) : t \in UndecodableTexts \cup NonListTexts}
    \cup {PyDict}

JsonCreateRequests ==
    {[agent_id |-> "a", name |-> "N", description |-> "D",
      system_prompt |-> PromptHi, model |-> "sonnet", tools |-> t,
      skills |-> PyStr(JsonText(<<"pdf">>))] : t \in ToolsArgs}

JsonUpdateRequests ==
    {[agent_id |-> "a", tools |-> t] : t \in ToolsArgs}
    \cup {[agent_id |-> "a", name |-> "N3",
           skills |-> PyStr(<<"p", "d", "f">>)]}

\* the base directory before the requests: empty, or holding an agent
\* written by hand without a tools key
JsonFs == {[exists |-> TRUE, entries |-> <<>>],
           [exists |-> TRUE, entries |-> [n \in {"a"} |-> AgentDir(ContentValid)]]}

JsonInit == RegInit /\ DefIdle /\ EnvIdle /\ fs \in JsonFs

JsonNext ==
    \/ \E args \in JsonCreateRequests : DbCreateAgent(args)
    \/ \E args \in JsonUpdateRequests : DbUpdateAgent(args)
    \/ DbDeleteAgent([agent_id |-> "a"])
    \/ Tick

JsonSpec == JsonInit /\ [][JsonNext]_vars

----------------------------------------------------------------------------
(* register called from several threads on one Registry: the method takes no
   lock, and the interpreter may switch threads between its two assignments *)

\* thread t calls registry.register(agent_id, definition)
RegisterCall(t, agent_id, definition) ==
    /\ threads[t].pc = "idle"
    /\ threads' = [threads EXCEPT ![t] = [pc |-> "set_definition",
                                          agent_id |-> agent_id,
                                          definition |-> definition]]
    /\ UNCHANGED <<fs, clock, io, objVars, agents_json, regVars, defVars>>

\* self._definitions[agent_id] = definition
RegisterSetDefinition(t) ==
    /\ threads[t].pc = "set_definition"
    /\ _definitions' = DictSet(_definitions, threads[t].agent_id,
                               threads[t].definition)
    /\ regOrder' = IF threads[t].agent_id \in Range(regOrder) THEN regOrder
                   ELSE Append(regOrder, threads[t].agent_id)
    /\ lastReg' = [k \in DOMAIN lastReg \cup {threads[t].agent_id} |->
                     IF k = threads[t].agent_id THEN threads[t].definition
                     ELSE lastReg[k]]
    /\ overwritten' = IF threads[t].agent_id \in Range(regOrder)
                      THEN overwritten \cup {threads[t].agent_id}
                      ELSE overwritten
    /\ threads' = [threads EXCEPT ![t].pc = "set_factory"]
    /\ UNCHANGED <<_factories, result, fs, clock, io, objVars, agents_json, defVars>>

\* self._factories[agent_id] = build_factory(definition), and the return
RegisterSetFactory(t) ==
    /\ threads[t].pc = "set_factory"
    /\ _factories' = DictSet(_factories, threads[t].agent_id,
                             build_factory(threads[t].definition))
    /\ result' = Call("register", threads[t].agent_id, PyNone, Returned(<<>>))
    /\ threads' = [threads EXCEPT ![t] = NoCall]
    /\ UNCHANGED <<_definitions, regOrder, lastReg, overwritten, fs, clock,
                   io, objVars, agents_json, defVars>>

\* the identifiers and Definitions the threads register
ConcIds == {"a", "b"}
ConcDefSet == {d \in DefSet : d.subagents = <<>>}

ConcNext ==
    \/ \E t \in Threads, agent_id \in ConcIds, definition \in ConcDefSet :
           RegisterCall(t, agent_id, definition)
    \/ \E t \in Threads : RegisterSetDefinition(t)
    \/ \E t \in Threads : RegisterSetFactory(t)

ConcSpec == Init /\ [][ConcNext]_vars

----------------------------------------------------------------------------
(* save_agent step by step: write_agent_md makes the directory, then
   Path.write_text opens AGENT.md for writing, which truncates it, and writes
   the content; the call may be interrupted between any two steps *)

\* the entry of agent_id with the content of its AGENT.md replaced
WithAgentMd(dir, agent_id, content) ==
    [dir EXCEPT !.entries[agent_id] = AgentDir(content)]

\* save_agent up to agent_dir.mkdir(parents=True, exist_ok=True)
SaveAgentMkdir(agent_id) ==
    /\ io.pc = "idle"
    /\ IF ~DictHas(_definitions, agent_id)
       THEN /\ result' = Call("save_agent", agent_id, PyNone,
                              Raised("KeyError",
                                     <<"Agent '", agent_id, "' not found">>))
            /\ UNCHANGED <<fs, io>>
       ELSE IF agent_id \in DOMAIN fs.entries /\ ~fs.entries[agent_id].is_dir
       THEN /\ result' = Call("save_agent", agent_id, PyNone,
                              Raised("FileExistsError", <<agent_id>>))
            /\ UNCHANGED <<fs, io>>
       ELSE /\ fs' = [exists |-> TRUE,
                      entries |-> [n \in DOMAIN fs.entries \cup {agent_id} |->
                                     IF n \in DOMAIN fs.entries THEN fs.entries[n]
                                     ELSE EmptyDir]]
            /\ io' = [pc |-> "open", agent_id |-> agent_id,
                      content |-> AgentMd(to_md_dict(
                                      DictGet(_definitions, agent_id))),
                      previous |-> IF HasAgentMd(fs, agent_id)
                                   THEN fs.entries[agent_id].agent_md
                                   ELSE PyNone]
            /\ result' = result
    /\ UNCHANGED <<_definitions, _factories, regOrder, lastReg, overwritten>>
    /\ UNCHANGED <<defVars, clock, threads, objVars, agents_json>>

\* agent_file.write_text(content): open(mode='w') creates or truncates
SaveAgentOpen ==
    /\ io.pc = "open"
    /\ fs' = WithAgentMd(fs, io.agent_id, <<>>)
    /\ io' = [io EXCEPT !.pc = "write"]
    /\ UNCHANGED <<regVars, defVars, clock, threads, objVars, agents_json>>

\* agent_file.write_text(content): the file receives more of the content,
\* all of it at the latest when it is closed, and save_agent returns the path
SaveAgentWrite ==
    /\ io.pc = "write"
    /\ \E n \in (Len(fs.entries[io.agent_id].agent_md.v) + 1)..Len(io.content) :
           /\ fs' = WithAgentMd(fs, io.agent_id, SubSeq(io.content, 1, n))
           /\ IF n = Len(io.content)
              THEN /\ io' = NoWrite
                   /\ result' = Call("save_agent", io.agent_id, PyNone,
                                     Returned(<<io.agent_id, "AGENT.md">>))
              ELSE UNCHANGED <<io, result>>
    /\ UNCHANGED <<_definitions, _factories, regOrder, lastReg, overwritten>>
    /\ UNCHANGED <<defVars, clock, threads, objVars, agents_json>>

\* the call is interrupted where it stands (KeyboardInterrupt, or the
\* process is killed): nothing more is written
Interrupt ==
    /\ io.pc # "idle"
    /\ io' = NoWrite
    /\ result' = Call("save_agent", io.agent_id, PyNone,
                      Raised("KeyboardInterrupt", <<>>))
    /\ UNCHANGED <<_definitions, _factories, regOrder, lastReg, overwritten>>
    /\ UNCHANGED <<fs, defVars, clock, threads, objVars, agents_json>>

\* the identifier and the Definitions save_agent is interrupted with
InterruptIds == {"a"}

InterruptNext ==
    \/ \E agent_id \in InterruptIds, definition \in ConcDefSet :
           io.pc = "idle" /\ Register(agent_id, definition)
    \/ \E agent_id \in InterruptIds \cup {"b"} : SaveAgentMkdir(agent_id)
    \/ SaveAgentOpen
    \/ SaveAgentWrite
    \/ Interrupt

InterruptSpec == StoreInit /\ [][InterruptNext]_vars

----------------------------------------------------------------------------
(* Instances and the objects they refer to: the Registry, the closure of a
   factory and an AgentInstance hold references to AgentDefinition objects,
   here addresses in the heap *)

\* the Instance with its definition read through the reference
Deref(instance, objects) ==
    [instance EXCEPT !.definition = objects[instance.definition]]

\* an Instance a caller holds, with its definition and its prompt as they
\* were when create returned it
Snapshot(instance, objects) ==
    [instance   |-> instance,
     definition |-> objects[instance.definition],
     prompt     |-> prompt(Deref(instance, objects))]

\* a register that, for an identifier already registered, copies the new
\* fields into the AgentDefinition object the Registry holds
register_object_in_place(objects, reg, agent_id, definition) ==
    IF DictHas(reg.definitions, agent_id)
    THEN [heap |-> [objects EXCEPT ![DictGet(reg.definitions, agent_id)] =
                                       definition],
          reg  |-> reg]
    ELSE [heap |-> Append(objects, definition),
          reg  |-> register(reg, agent_id, Len(objects) + 1)]

\* a caller constructs an AgentDefinition and registers it: the Registry and
\* the closure keep the reference to the new object
register_object(objects, reg, agent_id, definition) ==
    [heap |-> Append(objects, definition),
     reg  |-> register(reg, agent_id, Len(objects) + 1)]

RegisterObject(agent_id, definition) ==
    /\ Len(heap) < MaxObjects
    /\ \E done \in {register_object(heap, self, agent_id, definition)} :
           /\ heap' = done.heap
           /\ _definitions' = done.reg.definitions
           /\ _factories' = done.reg.factories
    /\ result' = Call("register", agent_id, PyNone, Returned(<<>>))
    /\ regOrder' = IF agent_id \in Range(regOrder) THEN regOrder
                   ELSE Append(regOrder, agent_id)
    /\ lastReg' = [k \in DOMAIN lastReg \cup {agent_id} |->
                     IF k = agent_id THEN definition ELSE lastReg[k]]
    /\ overwritten' = IF agent_id \in Range(regOrder)
                      THEN overwritten \cup {agent_id} ELSE overwritten
    /\ UNCHANGED <<fs, defVars, clock, threads, io, held, agents_json>>

\* instance = registry.create(agent_id, runtime_opts), kept by the caller
CreateInstance(agent_id, runtime_opts) ==
    /\ Len(held) < MaxHeld
    /\ \E made \in {create(agent_id, runtime_opts)} :
           /\ result' = Call("create", agent_id, runtime_opts, made)
           /\ held' = IF made.raised THEN held
                      ELSE Append(held, Snapshot(made.value, heap))
    /\ UNCHANGED <<_definitions, _factories, regOrder, lastReg, overwritten>>
    /\ UNCHANGED <<fs, defVars, clock, threads, io, heap, agents_json>>

\* the base directory while Instances are held: an agent saved under "a"
InstFs == {[exists |-> TRUE, entries |-> <<>>],
           [exists |-> TRUE, entries |-> [n \in {"a"} |-> AgentDir(ContentValid)]]}

InstInit == RegInit /\ DefIdle /\ EnvIdle /\ fs \in InstFs

InstNext ==
    \/ \E agent_id \in StoreIds, definition \in ConcDefSet :
           RegisterObject(agent_id, definition)
    \/ \E agent_id \in StoreIds, runtime_opts \in StoreOpts :
           CreateInstance(agent_id, runtime_opts)
    \/ \E agent_id \in StoreIds : DeleteAgentFile(agent_id)
    \/ DbDeleteAgent([agent_id |-> "a"])

InstSpec == InstInit /\ [][InstNext]_vars

----------------------------------------------------------------------------
(* The Definition pipeline: from_md_dict, to_md_dict, from_md_dict *)

DefInit ==
    /\ RegInit
    /\ EnvIdle
    /\ fs = NoBaseDir
    /\ data \in DataSet
    /\ defn = Returned(<<>>)
    /\ md = <<>>
    /\ defn2 = Returned(<<>>)
    /\ pc = "start"

FromMdDict ==
    /\ pc = "start"
    /\ defn' = from_md_dict(data)
    /\ pc' = IF defn'.raised THEN "failed" ELSE "constructed"
    /\ UNCHANGED <<data, md, defn2>>
    /\ UNCHANGED <<fs, regVars, envVars>>

ToMdDict ==
    /\ pc = "constructed"
    /\ md' = to_md_dict(defn.value)
    /\ pc' = "serialized"
    /\ UNCHANGED <<data, defn, defn2>>
    /\ UNCHANGED <<fs, regVars, envVars>>

Reparse ==
    /\ pc = "serialized"
    /\ defn2' = from_md_dict(md)
    /\ pc' = "reparsed"
    /\ UNCHANGED <<data, defn, md>>
    /\ UNCHANGED <<fs, regVars, envVars>>

DefNext == FromMdDict \/ ToMdDict \/ Reparse

DefSpec == DefInit /\ [][DefNext]_vars

----------------------------------------------------------------------------
(* Properties *)

StartsWith(s, pre) == Len(pre) <= Len(s) /\ SubSeq(s, 1, Len(pre)) = pre
EndsWith(s, suf) ==
    Len(suf) <= Len(s) /\ SubSeq(s, Len(s) - Len(suf) + 1, Len(s)) = suf

KeySet(d) == {d[i][1] : i \in DOMAIN d}

NoDuplicates(s) == \A i, j \in DOMAIN s : s[i] = s[j] => i = j

\* C1: in every state reachable by construction, register (overwrites
\* included), create, the lookups, bulk load, save and delete, the
\* identifier -> Definition mapping and the identifier -> Factory mapping have
\* the same key set.
C1_SameKeySets == KeySet(_definitions) = KeySet(_factories)

\* C1 witness: a Registry loaded from two saved agents, after one of them
\* was registered again and its file deleted.
C1_Witness ==
    /\ Len(_definitions) >= 2
    /\ overwritten # {}
    /\ result.op = "delete_agent_file"
    /\ \E id \in KeySet(_definitions) : id \notin DOMAIN fs.entries

\* C2: for every registered identifier, get_definition returns the Definition
\* of the latest register call for it, the stored Factory is bound to that
\* Definition, and create returns an Instance of that Definition.
C2_LatestRegisterWins ==
    \A id \in KeySet(_definitions) :
        /\ id \in DOMAIN lastReg
        /\ get_definition(id) = Returned(lastReg[id])
        /\ DictHas(_factories, id)
        /\ DictGet(_factories, id) = build_factory(lastReg[id])
        /\ \A opts \in RuntimeOpts :
               /\ ~create(id, opts).raised
               /\ create(id, opts).value.definition = lastReg[id]

\* C2 witness: create has returned an Instance for an identifier that was
\* registered more than once.
C2_Witness ==
    /\ result.op = "create"
    /\ ~result.raised
    /\ result.agent_id \in overwritten

\* the identifiers listed after "Available: " in the message of create's error
KnownIds(msg) == SelectSeq(SubSeq(msg, 4, Len(msg)), LAMBDA t : t # ", ")

\* C3: create on an identifier that is not registered raises the lookup error
\* (a KeyError) whose message carries the requested identifier and the known
\* identifiers, equal to list_agents() at the call; nothing is returned (the
\* call raised) and both mappings are left unchanged.
C3_CreateUnregisteredRaises ==
    [][\A id \in AgentIds :
          (result'.op = "create" /\ result'.agent_id = id
               /\ ~DictHas(_definitions, id)) =>
              /\ result'.raised
              /\ result'.exc = "KeyError"
              /\ Len(result'.msg) >= 3
              /\ result'.msg[2] = id
              /\ KnownIds(result'.msg) = list_agents
              /\ _definitions' = _definitions
              /\ _factories' = _factories]_vars

\* C3 witness: create has raised while two identifiers were registered.
C3_Witness ==
    /\ result.op = "create"
    /\ result.raised
    /\ Len(_definitions) >= 2

\* C4 (as claimed): get_definition on an identifier that is not registered
\* fails with the lookup error carrying the requested identifier and the
\* currently known identifiers.
C4_GetDefinitionErrorCarriesKnownIds ==
    (result.op = "get_definition" /\ result.raised) =>
        /\ result.exc = "KeyError"
        /\ result.agent_id \in Range(result.msg)
        /\ \A id \in Range(list_agents) : id \in Range(result.msg)

\* C5: list_agents returns every registered identifier exactly once, in the
\* order of first registration; the list a call returned stays the answer
\* until the next register.
C5_ListAgentsRegistrationOrder ==
    /\ list_agents = regOrder
    /\ NoDuplicates(list_agents)
    /\ Range(list_agents) = DOMAIN lastReg
    /\ result.op = "list_agents" => result.value = regOrder

\* C5 witness: list_agents has returned two identifiers, the first of which
\* was registered again.
C5_Witness ==
    /\ result.op = "list_agents"
    /\ Len(result.value) >= 2
    /\ result.value[1] \in overwritten

\* the identifiers a parent may delegate to: listed, registered, not itself
ExpectedSubagents(parent) ==
    {id \in Range(DictGet(_definitions, parent).subagents) :
        DictHas(_definitions, id) /\ id # parent}

\* C6: for a registered parent the key set of get_configured_subagents is
\* exactly the listed identifiers that are registered and are not the parent;
\* no error is raised for a dangling identifier.
C6_ConfiguredSubagents ==
    /\ \A parent \in KeySet(_definitions) :
           /\ ~get_configured_subagents(parent).raised
           /\ KeySet(get_configured_subagents(parent).value)
                  = ExpectedSubagents(parent)
    /\ (result.op = "get_configured_subagents"
            /\ DictHas(_definitions, result.agent_id)) =>
           /\ ~result.raised
           /\ result.agent_id \notin KeySet(result.value)
           /\ KeySet(result.value) = ExpectedSubagents(result.agent_id)

\* C6 witness: a parent that lists itself, a registered identifier and a
\* dangling one got back a non-empty mapping.
C6_Witness ==
    /\ result.op = "get_configured_subagents"
    /\ DictHas(_definitions, result.agent_id)
    /\ LET listed == Range(DictGet(_definitions, result.agent_id).subagents)
       IN  /\ result.agent_id \in listed
           /\ \E id \in listed : ~DictHas(_definitions, id)
    /\ Len(result.value) > 0

\* p ends with one line "- key: value" per entry of ctx, in ctx's order
RECURSIVE EndsWithContextLines(_, _)
EndsWithContextLines(p, ctx) ==
    IF Len(ctx) = 0 THEN TRUE
    ELSE LET e == ctx[Len(ctx)]
             line == <<NL, "-", " ">> \o e[1] \o <<":", " ">> \o Format(e[2])
         IN  /\ EndsWith(p, line)
             /\ EndsWithContextLines(SubSeq(p, 1, Len(p) - Len(line)),
                                     SubSeq(ctx, 1, Len(ctx) - 1))

\* C7: the prompt of the Instance create returns starts with the Definition's
\* system_prompt; with a non-empty runtime context it ends with one line
\* "- key: value" per key in the context's order; with an empty context or
\* None it is the system_prompt unchanged.
C7_PromptLaw ==
    (result.op = "create" /\ ~result.raised) =>
        LET inst == result.value
            base == DictGet(_definitions, result.agent_id).system_prompt
            ctx  == IF result.runtime_opts.none THEN <<>>
                    ELSE result.runtime_opts.v
        IN  /\ StartsWith(prompt(inst), base)
            /\ Len(ctx) > 0 =>
                   /\ EndsWithContextLines(prompt(inst), ctx)
                   /\ Len(prompt(inst)) > Len(base)
            /\ Len(ctx) = 0 => prompt(inst) = base

\* C7 witness: an Instance was created with a runtime context of two keys.
C7_Witness ==
    /\ result.op = "create"
    /\ ~result.raised
    /\ ~result.runtime_opts.none
    /\ Len(result.runtime_opts.v) = 2

\* C8 (as claimed): from_md_dict on a mapping that lacks a required key fails
\* with an error naming every absent required key and constructs nothing.
C8_MissingFieldsAllNamed ==
    (pc # "start" /\ RequiredKeys \ DOMAIN data # {}) =>
        /\ defn.raised
        /\ (RequiredKeys \ DOMAIN data) \subseteq Range(defn.msg)

\* C9 (as claimed): every Definition from_md_dict constructs has a supported
\* model; data whose model is outside the supported set constructs nothing.
C9_ModelSupported ==
    pc # "start" =>
        /\ ~defn.raised => defn.value.model \in SupportedModels
        /\ ("model" \in DOMAIN data /\ data["model"] \notin SupportedModels) =>
               defn.raised

\* C10: for data with the required fields, from_md_dict, to_md_dict and
\* from_md_dict again yield a Definition equal field for field to the first.
C10_RoundTrip ==
    pc = "reparsed" =>
        /\ ~defn2.raised
        /\ \A f \in MdKeys : defn2.value[f] = defn.value[f]
        /\ DOMAIN defn2.value = MdKeys

\* C10 witness: the round trip of data that gives subagents and omits tools.
C10_Witness ==
    /\ pc = "reparsed"
    /\ RequiredKeys \subseteq DOMAIN data
    /\ "subagents" \in DOMAIN data
    /\ "tools" \notin DOMAIN data

\* the identifiers with a persisted representation <base>/<id>/AGENT.md
PersistedIds(dir) == {n \in DOMAIN dir.entries : HasAgentMd(dir, n)}

\* the position of a name in the lexicographic order
Rank(n) == CHOOSE i \in DOMAIN NameOrder : NameOrder[i] = n

Ascending(s) == \A i, j \in DOMAIN s : i < j => Rank(s[i]) < Rank(s[j])

C13_LoadAtomic ==
    [][result'.op = "from_filesystem" =>
          IF result'.raised
          THEN _definitions' = _definitions /\ _factories' = _factories
          ELSE /\ KeySet(_definitions') = PersistedIds(fs)
               /\ KeySet(_factories') = PersistedIds(fs)
               /\ \A id \in PersistedIds(fs) :
                      Returned(DictGet(_definitions', id))
                          = from_md_dict(parse_agent_md(
                                fs.entries[id].agent_md.v).value)]_vars

\* C13 witness: a bulk load has raised on the file of "b" after the file of
\* "a", which parses, while the caller held a Registry loaded earlier.
C13_Witness ==
    /\ result.op = "from_filesystem"
    /\ result.raised
    /\ Len(_definitions) >= 1
    /\ HasAgentMd(fs, "a") /\ HasAgentMd(fs, "b")
    /\ ~parse_agent_md(fs.entries["a"].agent_md.v).raised
    /\ parse_agent_md(fs.entries["b"].agent_md.v).raised

\* what validate_agent_definition rejects in a parsed mapping
Malformed(d) ==
    \/ RequiredKeys \ DOMAIN d # {}
    \/ DataGet(d, "model", "") \notin SupportedModels

\* C14 (as claimed): a bulk load over a directory that holds a persisted
\* Definition lacking a required field, or with a model outside the supported
\* set, raises the construction error to the caller.
C14_MalformedEntrySurfaced ==
    (/\ result.op = "from_filesystem"
     /\ \E id \in PersistedIds(fs) :
            LET parsed == parse_agent_md(fs.entries[id].agent_md.v)
            IN  ~parsed.raised /\ Malformed(parsed.value)) =>
        result.raised

\* no '---' after the opening delimiter
NoClosingDelim(content) ==
    ~\E i \in 4..(Len(content) - 2) : SubSeq(content, i, i + 2) = Delim

\* C16: parse_agent_md raises its format error (a ValueError) when the
\* content does not begin with '---' and when no '---' closes the header; a
\* call that raised returned no mapping.
C16_ParseFormatError ==
    (result.op = "parse_agent_md" /\ HasAgentMd(fs, result.agent_id)) =>
        LET content == fs.entries[result.agent_id].agent_md.v
        IN  (~StartsWith(content, Delim) \/ NoClosingDelim(content)) =>
                /\ result.raised
                /\ result.exc = "ValueError"

\* C16 witness: parse_agent_md has raised on a content that begins with '---'
\* and has no closing delimiter.
C16_Witness ==
    /\ result.op = "parse_agent_md"
    /\ HasAgentMd(fs, result.agent_id)
    /\ StartsWith(fs.entries[result.agent_id].agent_md.v, Delim)
    /\ NoClosingDelim(fs.entries[result.agent_id].agent_md.v)
    /\ result.raised

\* C17: _list_agent_ids returns, in ascending order and each once, exactly the
\* names of the directories under the base directory that hold an AGENT.md;
\* a missing base directory, or one with no such directory, gives [] and no
\* error.
C17_ListAgentIds ==
    result.op = "_list_agent_ids" =>
        /\ ~result.raised
        /\ Range(result.value) = PersistedIds(fs)
        /\ Ascending(result.value)
        /\ NoDuplicates(result.value)
        /\ (~fs.exists \/ PersistedIds(fs) = {}) => Len(result.value) = 0

\* C17 witness: _list_agent_ids has returned two identifiers from a directory
\* that enumerated "b" before "a" and holds an entry that is not an agent.
C17_Witness ==
    /\ result.op = "_list_agent_ids"
    /\ Len(result.value) = 2
    /\ DOMAIN fs.entries # PersistedIds(fs)
    /\ \E i, j \in DOMAIN result.listing :
           i < j /\ result.listing[i] = "b" /\ result.listing[j] = "a"

\* the header of a content that starts with '---\n': up to the next '---'
Header(content) == SubSeq(content, 5, FindDelim(content, 4) - 1)

\* what follows the closing '---'
Body(content) == SubSeq(content, FindDelim(content, 4) + 3, Len(content))

\* C15: a write_agent_md that returned has created <base>/<id>/AGENT.md, whose
\* header holds exactly the fields of the mapping other than system_prompt and
\* whose body is the system_prompt; the caller's mapping is as before the
\* call; and the same write again leaves the directory, the file content
\* included, as it was.
C15_WriteIdempotent ==
    [][\A id \in {"a", "b"} :
          (result'.op = "write_agent_md" /\ result'.agent_id = id) =>
              /\ data' = data
              /\ ~result'.raised =>
                     LET content == fs'.entries[id].agent_md.v
                         fields == DOMAIN data \ {"system_prompt"}
                     IN  /\ fs'.exists
                         /\ HasAgentMd(fs', id)
                         /\ StartsWith(content, Delim \o <<NL>>)
                         /\ FindDelim(content, 4) > 0
                         /\ "system_prompt" \notin Range(Header(content))
                         /\ YamlLoad(Header(content)) =
                                Returned(Some([k \in fields |-> data[k]]))
                         /\ Body(content) =
                                <<NL, NL>> \o DataGet(data, "system_prompt", <<>>)
                                           \o <<NL>>
                         /\ result'.again => fs' = fs]_vars

\* C15 witness: the same mapping, with a system_prompt and a tools list, was
\* written a second time under an identifier whose directory the first write
\* created.
C15_Witness ==
    /\ result.op = "write_agent_md"
    /\ ~result.raised
    /\ result.again
    /\ {"system_prompt", "tools", "name"} \subseteq DOMAIN data

\* the mapping parse_agent_md reads from <base>/<id>/AGENT.md
Persisted(dir, id) == parse_agent_md(dir.entries[id].agent_md.v)

\* a tool call failed: it raised or returned a result with isError
Failed(call) == IF call.raised THEN TRUE ELSE call.value.isError

\* the entries of the base directory other than id are the same in both
SameOthers(dir1, dir2, id) ==
    /\ DOMAIN dir1.entries \ {id} = DOMAIN dir2.entries \ {id}
    /\ \A n \in DOMAIN dir1.entries \ {id} : dir1.entries[n] = dir2.entries[n]

\* the step is a tick of the clock and no call of a tool
TimePassed == fs' = fs /\ clock' # clock

\* C18: a db_create_agent for an identifier that has an AGENT.md fails and
\* leaves the directory as it was, and for a request that passes validation
\* over an AGENT.md that parses the failure is the already-exists error
\* result; a db_create_agent that changed the directory found no AGENT.md for
\* the identifier and wrote one holding the request's fields, created_at and
\* updated_at set to the clock's readings during the call.
C18_CreateExisting ==
    [][(result'.op = "db_create_agent" /\ ~TimePassed) =>
          LET id == result'.agent_id
              args == result'.runtime_opts.v
          IN  /\ HasAgentMd(fs, id) => (fs' = fs /\ Failed(result'))
              /\ (/\ HasAgentMd(fs, id)
                  /\ ~Persisted(fs, id).raised
                  /\ args["model"] \in SupportedModels) =>
                     /\ ~result'.raised
                     /\ result'.value.isError
                     /\ result'.value.text =
                            <<"Agent '", id,
                              "' already exists. Use db_update_agent to modify.">>
              /\ fs' # fs =>
                     /\ ~HasAgentMd(fs, id)
                     /\ ~Failed(result')
                     /\ HasAgentMd(fs', id)
                     /\ SameOthers(fs, fs', id)
                     /\ ~Persisted(fs', id).raised
                     /\ LET new == Persisted(fs', id).value
                        IN  /\ new["created_at"] = get_timestamp(clock)
                            /\ new["updated_at"] = get_timestamp(clock')
                            /\ clock <= clock'
                            /\ \A k \in {"name", "description", "system_prompt",
                                          "model", "tools"} : new[k] = args[k]
                            /\ \A k \in {"skills", "subagents"} :
                                   new[k] = DataGet(args, k, <<>>)
              /\ (/\ ~HasAgentMd(fs, id)
                  /\ args["model"] \in SupportedModels
                  /\ (id \in DOMAIN fs.entries => fs.entries[id].is_dir)) =>
                     (HasAgentMd(fs', id) /\ ~Failed(result'))]_vars

\* C18 witness: a valid request got the already-exists error for an agent
\* that an earlier db_create_agent wrote.
C18_Witness ==
    /\ result.op = "db_create_agent"
    /\ ~result.raised
    /\ result.value.isError
    /\ result.runtime_opts.v["model"] \in SupportedModels
    /\ HasAgentMd(fs, "a")
    /\ ~Persisted(fs, "a").raised
    /\ "created_at" \in DOMAIN Persisted(fs, "a").value

\* C19: a db_update_agent that returned without error has written an AGENT.md
\* whose updated_at is the clock's reading at the call, whose name,
\* description, system_prompt, model, tools and skills are the request's
\* where the request supplies them, and whose every other field, created_at
\* and subagents included, is what the file held before; a db_update_agent
\* for an identifier without an AGENT.md returns the not-found error result;
\* every update that failed left the directory as it was.
C19_UpdateFrame ==
    [][(result'.op = "db_update_agent" /\ ~TimePassed) =>
          LET id == result'.agent_id
              args == result'.runtime_opts.v
              supplied == UpdateKeys \cap DOMAIN args
          IN  /\ ~HasAgentMd(fs, id) =>
                     /\ ~result'.raised
                     /\ result'.value.isError
                     /\ result'.value.text =
                            <<"Agent '", id,
                              "' not found. Use db_create_agent to create.">>
              /\ Failed(result') => fs' = fs
              /\ ~Failed(result') =>
                     /\ HasAgentMd(fs, id) /\ HasAgentMd(fs', id)
                     /\ SameOthers(fs, fs', id)
                     /\ ~Persisted(fs', id).raised
                     /\ LET old == Persisted(fs, id).value
                            new == Persisted(fs', id).value
                        IN  /\ DOMAIN new = DOMAIN old \cup supplied
                                               \cup {"updated_at"}
                            /\ new["updated_at"] = get_timestamp(clock)
                            /\ \A k \in supplied : new[k] = args[k]
                            /\ \A k \in DOMAIN old \ (supplied \cup {"updated_at"}) :
                                   new[k] = old[k]]_vars

\* C19 witness: an update supplying skills and subagents has returned for an
\* agent created at an earlier tick; the file keeps its created_at and its
\* subagents and has the request's skills.
C19_Witness ==
    /\ result.op = "db_update_agent"
    /\ ~Failed(result)
    /\ "skills" \in DOMAIN result.runtime_opts.v
    /\ LET new == Persisted(fs, "a").value
       IN  /\ "created_at" \in DOMAIN new
           /\ new["created_at"] # new["updated_at"]
           /\ new["subagents"] = <<"b">>
           /\ new["skills"] = <<"pdf">>

\* C20 (as claimed): once every register call of every thread has completed,
\* the Factory stored for each identifier is the one built from the
\* Definition stored for it, whatever the interleaving of the calls.
C20_ConcurrentRegisterPaired ==
    (\A t \in Threads : threads[t].pc = "idle") =>
        \A id \in KeySet(_definitions) :
            /\ DictHas(_factories, id)
            /\ DictGet(_factories, id) = build_factory(DictGet(_definitions, id))
            /\ \A opts \in RuntimeOpts :
                   factory(DictGet(_factories, id), opts).definition
                       = DictGet(_definitions, id)

\* C21 (as claimed): a save_agent that is interrupted leaves the agent's
\* AGENT.md either as it was before the call, absent if it was absent, or
\* holding the complete new content.
C21_AtomicReplaceOnWrite ==
    [][(io.pc # "idle" /\ io'.pc = "idle" /\ result'.exc = "KeyboardInterrupt") =>
          IF HasAgentMd(fs', io.agent_id)
          THEN \/ fs'.entries[io.agent_id].agent_md = io.previous
               \/ fs'.entries[io.agent_id].agent_md = Some(io.content)
          ELSE io.previous.none]_vars

\* the entries of the mapping d other than id are in e with the same values
SameOtherEntries(d, e, id) ==
    \A k \in KeySet(d) \ {id} : DictHas(e, k) /\ DictGet(e, k) = DictGet(d, k)

\* C22: register(id, d) leaves every other identifier's Definition and
\* Factory as they were, adds no key other than id and leaves the agents
\* directory as it was; create, returning or raising, leaves both mappings
\* and the agents directory as they were.
C22_InMemoryFrame ==
    [][/\ result'.op = "register" =>
              /\ fs' = fs
              /\ KeySet(_definitions') = KeySet(_definitions) \cup {result'.agent_id}
              /\ KeySet(_factories') = KeySet(_factories) \cup {result'.agent_id}
              /\ SameOtherEntries(_definitions, _definitions', result'.agent_id)
              /\ SameOtherEntries(_factories, _factories', result'.agent_id)
       /\ result'.op = "create" =>
              /\ fs' = fs
              /\ _definitions' = _definitions
              /\ _factories' = _factories]_vars

\* C22 witness: "a" was registered over an earlier Definition while "b" is
\* registered with another Definition and the directory holds a saved agent.
C22_Witness ==
    /\ result.op = "register"
    /\ result.agent_id = "a"
    /\ "a" \in overwritten
    /\ DictHas(_definitions, "b")
    /\ DictGet(_definitions, "b") # DictGet(_definitions, "a")
    /\ DictGet(_factories, "b") # DictGet(_factories, "a")
    /\ PersistedIds(fs) # {}

\* C23: a create that returns adds one Instance to those the callers hold
\* and leaves the others as they are; whatever happens next, a register over
\* the identifier and a delete of its persisted representation included, the
\* definition of every Instance held and the value of its prompt are what
\* they were when create returned it.
C23_InstanceFixed ==
    [][/\ \A i \in DOMAIN held' :
              /\ heap'[held'[i].instance.definition] = held'[i].definition
              /\ prompt(Deref(held'[i].instance, heap')) = held'[i].prompt
       /\ \A i \in DOMAIN held : held'[i] = held[i]
       /\ (result'.op = "create" /\ ~result'.raised) =>
              /\ Len(held') = Len(held) + 1
              /\ held'[Len(held')].instance = result'.value]_vars

\* C23 witness: an Instance of "a" with a runtime context is held, "a" was
\* registered again with another Definition and its directory was deleted.
C23_Witness ==
    /\ Len(held) >= 1
    /\ Len(held[1].instance.runtime_context) > 0
    /\ DictHas(_definitions, "a")
    /\ "a" \in overwritten
    /\ DictGet(_definitions, "a") # held[1].instance.definition
    /\ heap[DictGet(_definitions, "a")] # held[1].definition
    /\ result.op \in {"delete_agent_file", "db_delete_agent"}
    /\ "a" \notin DOMAIN fs.entries

\* C24: a db_create_agent or db_update_agent that returned without error left
\* an AGENT.md whose tools, when the request gave tools, is a list: the
\* request's list, the list a JSON text encodes, or the empty list for a text
\* that is no JSON document; after db_create_agent the file always has a
\* tools list; a request whose tools is, after decoding, not a list fails
\* and leaves the directory as it was; a create of a new agent and an update
\* of an existing one whose tools is any other text succeed.
C24_ToolsNormalized ==
    [][(result'.op \in {"db_create_agent", "db_update_agent"} /\ ~TimePassed) =>
          LET id == result'.agent_id
              args == result'.runtime_opts.v
              given == "tools" \in DOMAIN args
          IN  /\ Failed(result') => fs' = fs
              /\ ~Failed(result') =>
                     /\ HasAgentMd(fs', id)
                     /\ ~Persisted(fs', id).raised
                     /\ \A new \in {Persisted(fs', id).value} :
                            /\ (given \/ result'.op = "db_create_agent") =>
                                   /\ "tools" \in DOMAIN new
                                   /\ isinstance_list(new["tools"])
                            /\ (given /\ isinstance_list(args["tools"])) =>
                                   new["tools"] = args["tools"]
                            /\ \A l \in ToolLists :
                                   (given /\ strip(Tail(args["tools"])) = JsonText(l)
                                          /\ isinstance_str(args["tools"])) =>
                                       new["tools"] = l
                            /\ (given /\ isinstance_str(args["tools"])
                                      /\ Tail(args["tools"]) \in UndecodableTexts) =>
                                   new["tools"] = <<>>
              /\ (given /\ (\/ args["tools"] = PyDict
                             \/ /\ isinstance_str(args["tools"])
                                /\ Tail(args["tools"]) \in NonListTexts)) =>
                     /\ fs' = fs
                     /\ Failed(result')
              /\ (/\ given
                  /\ isinstance_str(args["tools"])
                  /\ Tail(args["tools"]) \notin NonListTexts
                  /\ HasAgentMd(fs, id) <=> result'.op = "db_update_agent") =>
                     ~Failed(result')]_vars

\* C24 witness: a db_update_agent whose tools arrived as the JSON text
\* ' ["Read", "Grep"]\n' has rewritten the AGENT.md of an agent created with
\* another tools list; the file holds the two-element list.
C24_Witness ==
    /\ result.op = "db_update_agent"
    /\ ~Failed(result)
    /\ "tools" \in DOMAIN result.runtime_opts.v
    /\ isinstance_str(result.runtime_opts.v["tools"])
    /\ Tail(result.runtime_opts.v["tools"]) # JsonText(<<"Read", "Grep">>)
    /\ HasAgentMd(fs, "a")
    /\ "created_at" \in DOMAIN Persisted(fs, "a").value
    /\ Persisted(fs, "a").value["tools"] = <<"Read", "Grep">>

\* C25 (as claimed): a db_delete_agent or a delete_agent_file for an
\* identifier without an AGENT.md raises nothing and leaves the directory as
\* it was, db_delete_agent returning the not-found error result; for an
\* identifier with an AGENT.md it removes it, so that _list_agent_ids and a
\* bulk load no longer contain the identifier.
C25_DeleteChecksExistence ==
    [][result'.op \in {"db_delete_agent", "delete_agent_file"} =>
          LET id == result'.agent_id
          IN  IF ~HasAgentMd(fs, id)
              THEN /\ ~result'.raised
                   /\ fs' = fs
                   /\ result'.op = "db_delete_agent" =>
                          /\ result'.value.isError
                          /\ result'.value.text = <<"Agent '", id, "' not found.">>
              ELSE /\ ~HasAgentMd(fs', id)
                   /\ \A listing \in iterdir(fs') :
                          /\ id \notin Range(_list_agent_ids(fs', listing))
                          /\ \A loaded \in {from_filesystem(fs', listing)} :
                                 ~loaded.raised =>
                                     ~DictHas(loaded.value.definitions, id)]_vars

\* what validation is to reject: a required field missing, a model that is
\* neither haiku nor sonnet, tools that is not a list
Invalid(d) ==
    \/ RequiredKeys \ DOMAIN d # {}
    \/ DataGet(d, "model", "") \notin SupportedModels
    \/ IF "tools" \in DOMAIN d THEN ~isinstance_list(d["tools"]) ELSE FALSE

\* the text of a tool result begins with "Invalid agent definition: "
ValidationError(call) ==
    /\ ~call.raised
    /\ call.value.isError
    /\ call.value.text[1] = "Invalid agent definition: "

\* C26: a db_create_agent whose request gives the four fields and builds an
\* invalid definition returns the validation error result and leaves the
\* directory as it was, whether or not the identifier has an AGENT.md; a
\* db_update_agent over an AGENT.md that parses, whose updated definition is
\* invalid, does the same; a call that changed the directory had a valid
\* definition.
C26_ValidationBeforeWrite ==
    [][(result'.op \in {"db_create_agent", "db_update_agent"} /\ ~TimePassed) =>
          LET id == result'.agent_id
              args == result'.runtime_opts.v
          IN  IF result'.op = "db_create_agent"
              THEN /\ (RequiredKeys \subseteq DOMAIN args /\ Invalid(CreateData(args))) =>
                          (ValidationError(result') /\ fs' = fs)
                   /\ fs' # fs =>
                          (RequiredKeys \subseteq DOMAIN args
                               /\ ~Invalid(CreateData(args)))
              ELSE /\ (IF HasAgentMd(fs, id) THEN ~Persisted(fs, id).raised
                        ELSE FALSE) =>
                          \A merged \in {Updated(Persisted(fs, id).value, args)} :
                              /\ Invalid(merged) =>
                                     (ValidationError(result') /\ fs' = fs)
                              /\ fs' # fs => ~Invalid(merged)
                   /\ fs' # fs => HasAgentMd(fs, id)]_vars

\* C26 witness: a db_create_agent with model opus for an identifier that has
\* an AGENT.md has returned the validation error.
C26_Witness ==
    /\ result.op = "db_create_agent"
    /\ RequiredKeys \subseteq DOMAIN result.runtime_opts.v
    /\ result.runtime_opts.v["model"] = "opus"
    /\ HasAgentMd(fs, "a")
    /\ ValidationError(result)

\* C27: get_configured_subagents for a parent identifier that is not
\* registered returns the empty mapping and raises nothing, where create and
\* get_definition for that identifier raise; whatever the parent, the call
\* leaves both mappings as they were.
C27_SubagentsOfUnregistered ==
    [][/\ result'.op = "get_configured_subagents" =>
              /\ _definitions' = _definitions
              /\ _factories' = _factories
              /\ ~DictHas(_definitions, result'.agent_id) =>
                     /\ ~result'.raised
                     /\ result'.value = <<>>
       /\ (/\ result'.op \in {"create", "get_definition"}
           /\ ~DictHas(_definitions, result'.agent_id)) =>
              result'.raised]_vars

\* C27 witness: get_configured_subagents has returned for "c", which is not
\* registered, on a Registry that holds a parent listing "c".
C27_Witness ==
    /\ result.op = "get_configured_subagents"
    /\ result.agent_id = "c"
    /\ ~DictHas(_definitions, "c")
    /\ ~result.raised
    /\ \E id \in KeySet(_definitions) :
           "c" \in Range(DictGet(_definitions, id).subagents)

\* C28: delete_agent_file and save_agent leave both mappings as they were;
\* after delete_agent_file(id) for a registered id whose AGENT.md it removed,
\* id is still in list_agents() and create(id) still returns an Instance of
\* its Definition; save_agent for an identifier that is not registered raises
\* KeyError and leaves the directory as it was.
C28_StoreOpsFrame ==
    [][result'.op \in {"delete_agent_file", "save_agent"} =>
          LET id == result'.agent_id
          IN  /\ _definitions' = _definitions
              /\ _factories' = _factories
              /\ (result'.op = "delete_agent_file" /\ DictHas(_definitions, id)) =>
                     /\ ~HasAgentMd(fs', id)
                     /\ id \in Range(DictKeys(_definitions'))
                     /\ DictHas(_factories', id)
                     /\ \A opts \in StoreOpts :
                            factory(DictGet(_factories', id), opts).definition
                                = DictGet(_definitions, id)
              /\ (result'.op = "save_agent" /\ ~DictHas(_definitions, id)) =>
                     /\ result'.raised
                     /\ result'.exc = "KeyError"
                     /\ result'.msg = <<"Agent '", id, "' not found">>
                     /\ fs' = fs]_vars

\* C28 witness: create("a") has returned an Instance on a Registry whose
\* agents "a" and "b" were saved, after which the directory of "a" was
\* deleted.
C28_Witness ==
    /\ result.op = "create"
    /\ result.agent_id = "a"
    /\ ~result.raised
    /\ "a" \in Range(list_agents)
    /\ "a" \notin DOMAIN fs.entries
    /\ HasAgentMd(fs, "b")

----------------------------------------------------------------------------
(* A Definition saved and loaded again *)

TripIds == {"a", "b"}

\* Definitions with every field set: four prompts, and a description that
\* holds '---'
TripData ==
    {[name |-> "N", description |-> "D", system_prompt |-> p,
      model |-> "sonnet", tools |-> <<"mcp__search__web">>,
      skills |-> <<"pdf">>, subagents |-> <<"b">>,
      created_at |-> "2025-01-01T00:00:00Z",
      updated_at |-> "2025-02-01T00:00:00Z"]
        : p \in {PromptHi, PromptRule, PromptCr, PromptPadded}}
    \cup {[name |-> "N", description |-> "a---b", system_prompt |-> PromptHi,
           model |-> "haiku"]}

TripDefSet == {from_md_dict(d).value : d \in TripData}

TripNext ==
    \/ \E agent_id \in TripIds, definition \in TripDefSet :
           Register(agent_id, definition)
    \/ \E agent_id \in TripIds : SaveAgent(agent_id)
    \/ FromFilesystem
    \/ \E agent_id \in TripIds : GetDefinition(agent_id)

TripSpec == StoreInit /\ [][TripNext]_vars

\* the strings of a Definition that write_agent_md puts in the header
HeaderStrings(d) ==
    {d.name, d.description, d.model, d.created_at, d.updated_at}
        \cup Range(d.tools) \cup Range(d.skills) \cup Range(d.subagents)

\* a system_prompt without leading or trailing whitespace and header fields
\* without '---'
Strippable(d) ==
    /\ strip(d.system_prompt) = d.system_prompt
    /\ \A v \in HeaderStrings(d) : FindDelim(Spell(v), 1) = 0

\* a from_filesystem that follows a save_agent that returned: the Registry it
\* yields holds for the saved identifier the Definition d that was saved
LoadedAsSaved(d) ==
    /\ ~result'.raised
    /\ DictHas(_definitions', result.agent_id)
    /\ DictGet(_definitions', result.agent_id) = d

SavedThenLoaded ==
    /\ result.op = "save_agent"
    /\ ~result.raised
    /\ result'.op = "from_filesystem"

\* C29 as stated: a Definition whose system_prompt has no leading or trailing
\* whitespace and whose header fields hold no '---' is loaded by
\* from_filesystem as save_agent saved it
C29_RoundTripAsStated ==
    [][SavedThenLoaded =>
          \A d \in {DictGet(_definitions, result.agent_id)} :
              Strippable(d) => LoadedAsSaved(d)]_vars

\* C29: a Definition whose system_prompt has no leading or trailing
\* whitespace and no carriage return, and whose header fields hold no '---',
\* is loaded by from_filesystem as save_agent saved it, a '---' inside the
\* system_prompt included; a get_definition on the loaded Registry returns it
C29_StoreRoundTrip ==
    [][/\ SavedThenLoaded =>
              \A d \in {DictGet(_definitions, result.agent_id)} :
                  (Strippable(d) /\ CR \notin Range(d.system_prompt))
                      => LoadedAsSaved(d)
       /\ (result.op = "from_filesystem" /\ ~result.raised
               /\ result'.op = "get_definition"
               /\ DictHas(_definitions, result'.agent_id))
              => /\ ~result'.raised
                 /\ result'.value = DictGet(_definitions, result'.agent_id)
                 /\ _definitions' = _definitions]_vars

\* a Registry loaded from a directory that holds the AGENT.md of a Definition
\* whose system_prompt has a '---' of its own, the Definition as it was saved
C29_Witness ==
    /\ result.op = "from_filesystem"
    /\ ~result.raised
    /\ HasAgentMd(fs, "a")
    /\ fs.entries["a"].agent_md.v
           = AgentMd(to_md_dict(DictGet(_definitions, "a")))
    /\ DictGet(_definitions, "a").system_prompt = PromptRule

----------------------------------------------------------------------------
(* The run_agent tool, on the Registry of the JSON store *)

\* AgentDefinition.from_dict of the JSON store
from_dict(d) ==
    IF "name" \notin DOMAIN d THEN Raised("KeyError", <<"name">>)
    ELSE IF "description" \notin DOMAIN d THEN Raised("KeyError", <<"description">>)
    ELSE IF "system_prompt" \notin DOMAIN d THEN Raised("KeyError", <<"system_prompt">>)
    ELSE Returned([name          |-> d["name"],
                   description   |-> d["description"],
                   system_prompt |-> d["system_prompt"],
                   model         |-> DataGet(d, "model", "sonnet"),
                   tools         |-> DataGet(d, "tools", <<>>)])

\* the loop of from_json over data.get("agents", {}).items()
RECURSIVE LoadJsonAgents(_, _)
LoadJsonAgents(items, registry) ==
    IF Len(items) = 0 THEN Returned(registry)
    ELSE LET definition == from_dict(Head(items)[2])
         IN  IF definition.raised THEN definition
             ELSE LoadJsonAgents(Tail(items),
                                 register(registry, Head(items)[1],
                                          definition.value))

\* AgentRegistry.from_json(path) on what the file holds
from_json(stored) ==
    IF ~stored.exists THEN Raised("FileNotFoundError", <<"agents.json">>)
    ELSE IF ~stored.valid THEN Raised("JSONDecodeError", <<"Expecting value">>)
    ELSE LoadJsonAgents(IF stored.agents.none THEN <<>> ELSE stored.agents.v,
                        [definitions |-> <<>>, factories |-> <<>>])

\* registry.create(agent_id, {}) of the JSON store's Registry
registry_create(registry, agent_id) ==
    IF ~DictHas(registry.factories, agent_id)
    THEN Raised("KeyError",
                <<"Agent '", agent_id, "' not found. Available: ">>
                    \o Join([i \in DOMAIN registry.definitions |->
                                <<registry.definitions[i][1]>>], <<", ">>))
    ELSE Returned([definition |-> DictGet(registry.factories, agent_id),
                   runtime_context |-> <<>>])

\* run_agent(args), stored what db/agents.json holds and sub the outcome of
\* run_agent_capture: the handler of KeyError reads registry.definitions, an
\* attribute the Registry does not have
run_agent(args, stored, sub) ==
    IF "agent_id" \notin DOMAIN args THEN Raised("KeyError", <<"agent_id">>)
    ELSE IF "prompt" \notin DOMAIN args THEN Raised("KeyError", <<"prompt">>)
    ELSE LET registry == from_json(stored)
         IN  IF registry.raised
             THEN Returned(ToolError(<<"Failed to load agent registry: ">>
                                         \o registry.msg))
             ELSE IF registry_create(registry.value, args["agent_id"]).raised
             THEN Raised("AttributeError",
                         <<"'AgentRegistry' object has no attribute 'definitions'">>)
             ELSE IF sub.raised
             THEN Returned(ToolError(<<"Sub-agent execution failed: ">>
                                         \o sub.msg))
             ELSE Returned(ToolResult(
                      <<"Sub-agent '", args["agent_id"], "' (",
                        DataGet(args, "label", "unlabeled"), ") completed:",
                        NL, NL>> \o sub.value))

\* what run_agent_capture does with the sub-agent: its response, or an
\* exception of the SDK client
SubOutcomes == {Returned(<<"o", "k">>), Raised("Exception", <<"boom">>)}

RunAgent(args) ==
    /\ \E sub \in SubOutcomes :
           result' = Call("run_agent", DataGet(args, "agent_id", ""), Some(args),
                          run_agent(args, agents_json, sub))
    /\ UNCHANGED <<_definitions, _factories, regOrder, lastReg, overwritten>>
    /\ UNCHANGED <<fs, defVars, envVars>>

\* db/agents.json is written, by save_json or by hand
WriteAgentsJson(stored) ==
    /\ agents_json' = stored
    /\ UNCHANGED <<regVars, fs, defVars, clock, threads, io, objVars>>

JsonAgentN == [name |-> "N", description |-> "D", system_prompt |-> PromptHi,
               model |-> "sonnet", tools |-> <<"Read">>]
JsonAgentBare == [name |-> "N2", description |-> "D",
                  system_prompt |-> PromptBeKind]
JsonAgentNameless == [description |-> "D", system_prompt |-> PromptHi]

AgentsJsonFiles ==
    {NoAgentsJson, NotJson, JsonObject(PyNone), JsonObject(Some(<<>>)),
     JsonObject(Some(<<(<<"a", JsonAgentN>>)>>)),
     JsonObject(Some(<<(<<"b", JsonAgentBare>>), (<<"a", JsonAgentN>>)>>)),
     JsonObject(Some(<<(<<"a", JsonAgentN>>), (<<"b", JsonAgentNameless>>)>>))}

RunRequests ==
    {[agent_id |-> id, prompt |-> p] : id \in AgentIds,
                                       p \in {PromptHi, PromptBeKind}}
    \cup {[agent_id |-> id, prompt |-> PromptHi, label |-> "slide_3"]
              : id \in AgentIds}
    \cup {[agent_id |-> "a"]}

RunNext ==
    \/ \E stored \in AgentsJsonFiles : WriteAgentsJson(stored)
    \/ \E args \in RunRequests : RunAgent(args)

RunSpec == Init /\ [][RunNext]_vars

\* C30: a run_agent call with an agent_id and a prompt does not raise; with a db/agents.json that does not
\* load its result has isError set, and for an agent_id the loaded Registry
\* does not hold its result has isError set and a text that names the
\* agent_id and every identifier of the Registry
C30_RunAgentNeverRaises ==
    [][(/\ result'.op = "run_agent"
        /\ agents_json' = agents_json
        /\ {"agent_id", "prompt"} \subseteq DOMAIN result'.runtime_opts.v) =>
          /\ ~result'.raised
          /\ \A registry \in {from_json(agents_json)} :
                 IF registry.raised THEN result'.value.isError
                 ELSE DictHas(registry.value.definitions, result'.agent_id)
                      \/ /\ result'.value.isError
                         /\ result'.agent_id \in Range(result'.value.text)
                         /\ Range(DictKeys(registry.value.definitions))
                                \subseteq Range(result'.value.text)]_vars

====
